---- MODULE Spec2Model ----
(***************************************************************************)
(* Yoga Sequencing MCP server (main.py): the sequence builder, the         *)
(* template and pose resources and the Piper audio tool; the               *)
(* soloscale_poseflow server (poseflow_mcp); the yoga-curriculum server    *)
(* (yoga_curriculum_mcp_server.py).  Each server is a process of its own   *)
(* and has its own specification below.                                    *)
(*                                                                         *)
(* A Python dict is modelled as the sequence of its items in insertion     *)
(* order, each item a record [key, value]; a Python list as a sequence; a  *)
(* Python str that the code transforms as the sequence of its characters;  *)
(* an f-string as a record of its literal text and interpolated values.    *)
(***************************************************************************)
EXTENDS Integers, Sequences, FiniteSets, TLC

\* POSEFLOW_STATE is the dict STATE of the soloscale_poseflow server; outbox
\* holds, in order, the messages the SMTP server and the Slack webhook took;
\* upserts holds, in order, the batches the Qdrant collection took from the
\* uploader
VARIABLES SEQUENCE_TEMPLATES, call, returned, history, frames,
          POSEFLOW_STATE, notifications_imported, outbox,
          QDRANT_AVAILABLE, MISTRAL_AVAILABLE, config, qdrant_client,
          embedding_model, enhanced_generator, initialized, upserts

vars == <<SEQUENCE_TEMPLATES, call, returned, history, frames,
          POSEFLOW_STATE, notifications_imported, outbox,
          QDRANT_AVAILABLE, MISTRAL_AVAILABLE, config, qdrant_client,
          embedding_model, enhanced_generator, initialized, upserts>>

\* the module-level state of the soloscale_poseflow server
poseflow == <<POSEFLOW_STATE, notifications_imported, outbox>>

\* the module-level state of the yoga-curriculum server
curriculum ==
    <<QDRANT_AVAILABLE, MISTRAL_AVAILABLE, config, qdrant_client,
      embedding_model, enhanced_generator, initialized>>

(***************************************************************************)
(* Bounds of the model.                                                    *)
(***************************************************************************)
\* durations tried reach this far below 5 and this far above 90
ExtraDuration == 6
\* the SMTP server and the Slack webhook take this many messages in a run
MaxOutbox == 2

\* records given to the uploader, and batch sizes tried besides the default
MaxRecords == 5

MaxBatchSize == 3

\* rows in the dataset given to the cleaner
MaxRows == 3
\* select_poses_for_time is called directly with 0..MaxSectionTime minutes
MaxSectionTime == 8
\* the number of create_yoga_sequence calls whose results are kept for comparison
MaxHistory == 3

(***************************************************************************)
(* Python built-ins used by the code.                                      *)
(***************************************************************************)
max(a, b) == IF a >= b THEN a ELSE b

min(a, b) == IF a <= b THEN a ELSE b

Item(k, v) == [key |-> k, value |-> v]

\* list(d.keys())
keys(d) == [i \in 1..Len(d) |-> d[i].key]

\* k in d
contains(d, k) == \E i \in 1..Len(d) : d[i].key = k

\* d[k]
get(d, k) == d[CHOOSE i \in 1..Len(d) : d[i].key = k].value

\* lst[:k] for k >= 0
slice_to(lst, k) == SubSeq(lst, 1, min(k, Len(lst)))

\* the dict d after the object under its key k has become v
put(d, k, v) == [i \in 1..Len(d) |-> IF d[i].key = k THEN Item(k, v) ELSE d[i]]

Lowercase ==
    <<"a","b","c","d","e","f","g","h","i","j","k","l","m",
      "n","o","p","q","r","s","t","u","v","w","x","y","z">>

Uppercase ==
    <<"A","B","C","D","E","F","G","H","I","J","K","L","M",
      "N","O","P","Q","R","S","T","U","V","W","X","Y","Z">>

is_letter(c) == \E i \in 1..26 : Lowercase[i] = c \/ Uppercase[i] = c

upper(c) ==
    IF \E i \in 1..26 : Lowercase[i] = c
    THEN Uppercase[CHOOSE i \in 1..26 : Lowercase[i] = c]
    ELSE c

lower(c) ==
    IF \E i \in 1..26 : Uppercase[i] = c
    THEN Lowercase[CHOOSE i \in 1..26 : Uppercase[i] = c]
    ELSE c

\* str.replace(old, new) for one-character old and new
replace(cs, old, new) == [i \in 1..Len(cs) |-> IF cs[i] = old THEN new ELSE cs[i]]

\* str.lower()
lower_str(cs) == [i \in 1..Len(cs) |-> lower(cs[i])]

\* json.dumps(v): the JSON text, identified by the value it encodes (dicts
\* with string keys, lists and strings are encoded one-to-one and in order)
json_dumps(v) == [json |-> v]

RECURSIVE b64encode(_)
\* base64.b64encode(data): bytes are numbers 0..255, the characters of the
\* result are their places 0..63 in the base64 alphabet, and 64 is the pad "="
b64encode(data) ==
    IF Len(data) = 0 THEN <<>>
    ELSE IF Len(data) = 1 THEN
        LET n == data[1] * 16
        IN  <<n \div 64, n % 64, 64, 64>>
    ELSE IF Len(data) = 2 THEN
        LET n == (data[1] * 256 + data[2]) * 4
        IN  <<n \div 4096, (n \div 64) % 64, n % 64, 64>>
    ELSE
        LET n == data[1] * 65536 + data[2] * 256 + data[3]
        IN  <<n \div 262144, (n \div 4096) % 64, (n \div 64) % 64, n % 64>>
                \o b64encode(SubSeq(data, 4, Len(data)))

RECURSIVE b64decode(_)
\* base64.b64decode(s) for a padded base64 text
b64decode(s) ==
    IF Len(s) < 4 THEN <<>>
    ELSE IF s[3] = 64 THEN
        <<(s[1] * 64 + s[2]) \div 16>>
    ELSE IF s[4] = 64 THEN
        LET n == (s[1] * 4096 + s[2] * 64 + s[3]) \div 4
        IN  <<n \div 256, n % 256>>
    ELSE
        LET n == s[1] * 262144 + s[2] * 4096 + s[3] * 64 + s[4]
        IN  <<n \div 65536, (n \div 256) % 256, n % 256>>
                \o b64decode(SubSeq(s, 5, Len(s)))

\* round(n / 1024, 1), in tenths: n / 1024 is an exact float, and round() takes
\* a tie to the even neighbour
round_kb_1(n) ==
    LET q == (n * 10) \div 1024
        r == (n * 10) % 1024
    IN  IF r > 512 \/ (r = 512 /\ q % 2 = 1) THEN q + 1 ELSE q

\* str.title(): a letter that follows a non-letter (or starts the string) is
\* upper-cased, every other letter is lower-cased
title(cs) ==
    [i \in 1..Len(cs) |->
        IF i = 1 \/ ~is_letter(cs[i - 1]) THEN upper(cs[i]) ELSE lower(cs[i])]

\* the characters of the section keys and level names that occur in the code
chars(s) ==
    CASE s = "Beginner"     -> <<"B","e","g","i","n","n","e","r">>
      [] s = "Intermediate" -> <<"I","n","t","e","r","m","e","d","i","a","t","e">>
      [] s = "Advanced"     -> <<"A","d","v","a","n","c","e","d">>
      [] s = "beginner"     -> <<"b","e","g","i","n","n","e","r">>
      [] s = "intermediate" -> <<"i","n","t","e","r","m","e","d","i","a","t","e">>
      [] s = "Mountain Pose" -> <<"M","o","u","n","t","a","i","n"," ","P","o","s","e">>
      [] s = "Cat/Cow Flow"  -> <<"C","a","t","/","C","o","w"," ","F","l","o","w">>
      [] s = "ADVANCED"      -> <<"A","D","V","A","N","C","E","D">>
      [] s = "warm_up"     -> <<"w","a","r","m","_","u","p">>
      [] s = "standing"    -> <<"s","t","a","n","d","i","n","g">>
      [] s = "seated"      -> <<"s","e","a","t","e","d">>
      [] s = "backbends"   -> <<"b","a","c","k","b","e","n","d","s">>
      [] s = "cool_down"   -> <<"c","o","o","l","_","d","o","w","n">>
      [] s = "flow"        -> <<"f","l","o","w">>
      [] s = "peak"        -> <<"p","e","a","k">>
      [] s = "grounding"   -> <<"g","r","o","u","n","d","i","n","g">>
      [] s = "gentle"      -> <<"g","e","n","t","l","e">>
      [] s = "restorative" -> <<"r","e","s","t","o","r","a","t","i","v","e">>
      [] s = "relaxation"  -> <<"r","e","l","a","x","a","t","i","o","n">>
      [] s = "advanced"    -> <<"a","d","v","a","n","c","e","d">>
      [] s = "expert"      -> <<"e","x","p","e","r","t">>
      [] s = "Standing"    -> <<"S","t","a","n","d","i","n","g">>
      [] s = "Seated"      -> <<"S","e","a","t","e","d">>
      [] s = "Balancing"   -> <<"B","a","l","a","n","c","i","n","g">>
      [] s = "Supine"      -> <<"S","u","p","i","n","e">>
      [] s = "Prone"       -> <<"P","r","o","n","e">>
      [] s = "Back Bend"   -> <<"B","a","c","k"," ","B","e","n","d">>
      [] s = "Forward Bend" -> <<"F","o","r","w","a","r","d"," ","B","e","n","d">>
      [] s = "Standing Forward Bend" ->
            <<"S","t","a","n","d","i","n","g"," ","F","o","r","w","a","r","d"," ","B","e","n","d">>
      [] s = "Inversion"   -> <<"I","n","v","e","r","s","i","o","n">>

(***************************************************************************)
(* SEQUENCE_TEMPLATES as the module sets it at import.                     *)
(***************************************************************************)
Pose(n, s, e) == [name |-> n, sanskrit_name |-> s, expertise_level |-> e]

HathaBeginner ==
    << Item("warm_up", <<
           Pose("Easy Pose", "Sukhasana", "Beginner"),
           Pose("Cat-Cow Pose", "Marjaryasana-Bitilasana", "Beginner"),
           Pose("Child's Pose", "Balasana", "Beginner") >>),
       Item("standing", <<
           Pose("Mountain Pose", "Tadasana", "Beginner"),
           Pose("Tree Pose", "Vrikshasana", "Beginner"),
           Pose("Triangle Pose", "Trikonasana", "Beginner"),
           Pose("Warrior I", "Virabhadrasana I", "Beginner") >>),
       Item("seated", <<
           Pose("Staff Pose", "Dandasana", "Beginner"),
           Pose("Bound Angle Pose", "Baddha Konasana", "Beginner"),
           Pose("Seated Forward Fold", "Paschimottanasana", "Beginner") >>),
       Item("backbends", <<
           Pose("Bridge Pose", "Setu Bandhasana", "Beginner"),
           Pose("Camel Pose", "Ustrasana", "Intermediate") >>),
       Item("cool_down", <<
           Pose("Child's Pose", "Balasana", "Beginner"),
           Pose("Supine Twist", "Supta Matsyendrasana", "Beginner"),
           Pose("Corpse Pose", "Savasana", "Beginner") >>) >>

HathaIntermediate ==
    << Item("warm_up", <<
           Pose("Cat-Cow Pose", "Marjaryasana-Bitilasana", "Beginner"),
           Pose("Downward-Facing Dog", "Adho Mukha Svanasana", "Beginner"),
           Pose("Sun Salutation A", "Surya Namaskara A", "Intermediate") >>),
       Item("standing", <<
           Pose("Warrior I", "Virabhadrasana I", "Beginner"),
           Pose("Warrior II", "Virabhadrasana II", "Beginner"),
           Pose("Triangle Pose", "Trikonasana", "Beginner"),
           Pose("Extended Side Angle", "Utthita Parsvakonasana", "Intermediate") >>),
       Item("seated", <<
           Pose("Boat Pose", "Navasana", "Intermediate"),
           Pose("Seated Forward Fold", "Paschimottanasana", "Beginner"),
           Pose("Seated Spinal Twist", "Ardha Matsyendrasana", "Intermediate") >>),
       Item("backbends", <<
           Pose("Camel Pose", "Ustrasana", "Intermediate"),
           Pose("Wheel Pose", "Urdhva Dhanurasana", "Advanced"),
           Pose("Fish Pose", "Matsyasana", "Intermediate") >>),
       Item("cool_down", <<
           Pose("Pigeon Pose", "Eka Pada Rajakapotasana", "Intermediate"),
           Pose("Supine Figure 4", "Supta Kapotasana", "Beginner"),
           Pose("Corpse Pose", "Savasana", "Beginner") >>) >>

VinyasaBeginner ==
    << Item("warm_up", <<
           Pose("Easy Pose", "Sukhasana", "Beginner"),
           Pose("Sun Salutation A", "Surya Namaskara A", "Intermediate") >>),
       Item("flow", <<
           Pose("Warrior I", "Virabhadrasana I", "Beginner"),
           Pose("High Lunge", "Utthita Ashwa Sanchalanasana", "Beginner"),
           Pose("Triangle Pose", "Trikonasana", "Beginner") >>),
       Item("peak", <<
           Pose("Crow Pose", "Bakasana", "Intermediate"),
           Pose("Headstand Preparation", "Sirsasana Prep", "Intermediate") >>),
       Item("cool_down", <<
           Pose("Pigeon Pose", "Eka Pada Rajakapotasana", "Intermediate"),
           Pose("Happy Baby Pose", "Ananda Balasana", "Beginner"),
           Pose("Corpse Pose", "Savasana", "Beginner") >>) >>

VinyasaIntermediate ==
    << Item("warm_up", <<
           Pose("Sun Salutation A", "Surya Namaskara A", "Intermediate"),
           Pose("Sun Salutation B", "Surya Namaskara B", "Intermediate") >>),
       Item("flow", <<
           Pose("Warrior III", "Virabhadrasana III", "Intermediate"),
           Pose("Side Plank", "Vasisthasana", "Intermediate"),
           Pose("Eagle Pose", "Garudasana", "Intermediate") >>),
       Item("peak", <<
           Pose("Crow Pose", "Bakasana", "Intermediate"),
           Pose("Forearm Stand", "Pincha Mayurasana", "Advanced"),
           Pose("King Pigeon Pose", "Eka Pada Rajakapotasana", "Advanced") >>),
       Item("cool_down", <<
           Pose("Double Pigeon", "Agnistambhasana", "Intermediate"),
           Pose("Supine Twist", "Supta Matsyendrasana", "Beginner"),
           Pose("Corpse Pose", "Savasana", "Beginner") >>) >>

StressReliefAllLevels ==
    << Item("grounding", <<
           Pose("Child's Pose", "Balasana", "Beginner"),
           Pose("Easy Pose", "Sukhasana", "Beginner") >>),
       Item("gentle", <<
           Pose("Cat-Cow Pose", "Marjaryasana-Bitilasana", "Beginner"),
           Pose("Gentle Twist", "Bharadvajasana", "Beginner"),
           Pose("Legs-Up-the-Wall Pose", "Viparita Karani", "Beginner") >>),
       Item("restorative", <<
           Pose("Supported Forward Fold", "Janu Sirsasana (Supported)", "Beginner"),
           Pose("Reclined Bound Angle", "Supta Baddha Konasana", "Beginner"),
           Pose("Heart Opener", "Anahatasana", "Beginner") >>),
       Item("relaxation", <<
           Pose("Body Scan", "Yoga Nidra", "Beginner"),
           Pose("Yoga Nidra", "Yoga Nidra", "Beginner"),
           Pose("Extended Corpse Pose", "Savasana", "Beginner") >>) >>

SequenceTemplatesAtImport ==
    << Item("hatha", << Item("beginner", HathaBeginner),
                        Item("intermediate", HathaIntermediate) >>),
       Item("vinyasa", << Item("beginner", VinyasaBeginner),
                          Item("intermediate", VinyasaIntermediate) >>),
       Item("stress_relief", << Item("all_levels", StressReliefAllLevels) >>) >>

(***************************************************************************)
(* Helper functions of main.py.                                            *)
(***************************************************************************)
\* calculate_time_allocation with the backbends divisor of hatha copied from
\* warm_up
calculate_time_allocation_backbends_6(duration_minutes, style) ==
    IF style = "stress_relief" THEN
        << Item("grounding",   max(2, duration_minutes \div 6)),
           Item("gentle",      max(3, duration_minutes \div 4)),
           Item("restorative", max(5, duration_minutes \div 2)),
           Item("relaxation",  max(3, duration_minutes \div 4)) >>
    ELSE IF style = "hatha" THEN
        << Item("warm_up",   max(3, duration_minutes \div 6)),
           Item("standing",  max(5, duration_minutes \div 3)),
           Item("seated",    max(3, duration_minutes \div 4)),
           Item("backbends", max(2, duration_minutes \div 6)),
           Item("cool_down", max(5, duration_minutes \div 4)) >>
    ELSE
        << Item("warm_up",   max(3, duration_minutes \div 5)),
           Item("flow",      max(8, duration_minutes \div 2)),
           Item("peak",      max(3, duration_minutes \div 4)),
           Item("cool_down", max(5, duration_minutes \div 4)) >>

\* calculate_time_allocation without a branch of its own for vinyasa
calculate_time_allocation_no_vinyasa(duration_minutes, style) ==
    IF style = "stress_relief" THEN
        << Item("grounding",   max(2, duration_minutes \div 6)),
           Item("gentle",      max(3, duration_minutes \div 4)),
           Item("restorative", max(5, duration_minutes \div 2)),
           Item("relaxation",  max(3, duration_minutes \div 4)) >>
    ELSE
        << Item("warm_up",   max(3, duration_minutes \div 6)),
           Item("standing",  max(5, duration_minutes \div 3)),
           Item("seated",    max(3, duration_minutes \div 4)),
           Item("backbends", max(2, duration_minutes \div 8)),
           Item("cool_down", max(5, duration_minutes \div 4)) >>

calculate_time_allocation(duration_minutes, style) ==
    IF style = "stress_relief" THEN
        << Item("grounding",   max(2, duration_minutes \div 6)),
           Item("gentle",      max(3, duration_minutes \div 4)),
           Item("restorative", max(5, duration_minutes \div 2)),
           Item("relaxation",  max(3, duration_minutes \div 4)) >>
    ELSE IF style = "hatha" THEN
        << Item("warm_up",   max(3, duration_minutes \div 6)),
           Item("standing",  max(5, duration_minutes \div 3)),
           Item("seated",    max(3, duration_minutes \div 4)),
           Item("backbends", max(2, duration_minutes \div 8)),
           Item("cool_down", max(5, duration_minutes \div 4)) >>
    ELSE
        << Item("warm_up",   max(3, duration_minutes \div 5)),
           Item("flow",      max(8, duration_minutes \div 2)),
           Item("peak",      max(3, duration_minutes \div 4)),
           Item("cool_down", max(5, duration_minutes \div 4)) >>

\* time_minutes // 1.5 for an int time_minutes: 1.5 is an exact float and float
\* floor division is exact, so this is floor(2 * time_minutes / 3)
floordiv_1_5(time_minutes) == (2 * time_minutes) \div 3

\* select_poses_for_time counting two minutes per pose
select_poses_for_time_two_minutes(poses, time_minutes) ==
    LET target_poses == max(1, min(time_minutes \div 2, Len(poses)))
    IN  slice_to(poses, target_poses)

select_poses_for_time(poses, time_minutes) ==
    LET target_poses == max(1, min(floordiv_1_5(time_minutes), Len(poses)))
    IN  slice_to(poses, target_poses)

(***************************************************************************)
(* create_yoga_sequence.                                                   *)
(***************************************************************************)
duration_error ==
    [error |-> [text |-> "Duration must be between 5 and 90 minutes"]]

style_error ==
    [error |-> [text |-> "Style must be one of: {list(SEQUENCE_TEMPLATES.keys())}",
                keys |-> keys(SEQUENCE_TEMPLATES)]]

\* level_error listing the styles instead of the levels of the style
level_error_lists_styles(level, style, style_template) ==
    LET available_levels == keys(SEQUENCE_TEMPLATES)
    IN  [error |-> [text |-> "Level '{level}' not available for {style}. Available: {available_levels}",
                    level |-> level,
                    style |-> style,
                    available_levels |-> available_levels]]

level_error(level, style, style_template) ==
    LET available_levels == keys(style_template)
    IN  [error |-> [text |-> "Level '{level}' not available for {style}. Available: {available_levels}",
                    level |-> level,
                    style |-> style,
                    available_levels |-> available_levels]]

\* resolve_level without the stress relief rule
resolve_level_as_given(level, style) == level

\* For stress relief, use all_levels template
resolve_level(level, style) ==
    IF style = "stress_relief" THEN "all_levels" ELSE level

\* total_poses_after counting one per section
total_poses_after_by_one(total_poses, selected_poses) == total_poses + 1

\* sequence["total_poses"] += len(selected_poses)
total_poses_after(total_poses, selected_poses) == total_poses + Len(selected_poses)

\* add_section putting the new entry first
add_section_first(sequence, template, section, time_mins) ==
    IF contains(template, section) /\ time_mins > 0 THEN
        LET poses_in_section == get(template, section)
            selected_poses == select_poses_for_time(poses_in_section, time_mins)
        IN  [sequence EXCEPT
                !.sequence = <<[section |-> title(replace(chars(section), "_", " ")),
                                duration_minutes |-> time_mins,
                                poses |-> selected_poses]>> \o @,
                !.total_poses = total_poses_after(@, selected_poses)]
    ELSE sequence

\* one pass of the loop over time_allocation.items()
add_section(sequence, template, section, time_mins) ==
    IF contains(template, section) /\ time_mins > 0 THEN
        LET poses_in_section == get(template, section)
            selected_poses == select_poses_for_time(poses_in_section, time_mins)
        IN  [sequence EXCEPT
                !.sequence = Append(@,
                    [section |-> title(replace(chars(section), "_", " ")),
                     duration_minutes |-> time_mins,
                     poses |-> selected_poses]),
                !.total_poses = total_poses_after(@, selected_poses)]
    ELSE sequence

RECURSIVE add_sections(_, _, _, _)
\* the loop over time_allocation.items(), from item i on
add_sections(sequence, template, time_allocation, i) ==
    IF i > Len(time_allocation) THEN sequence
    ELSE add_sections(
            add_section(sequence, template,
                        time_allocation[i].key, time_allocation[i].value),
            template, time_allocation, i + 1)

\* build_sequence leaving out the opening section for a focused class
build_sequence_focused(duration_minutes, level, style, focus, template, time_allocation) ==
    LET sequence ==
            [class_info |-> [duration |-> duration_minutes,
                             level |-> level,
                             style |-> style,
                             focus |-> focus],
             sequence |-> <<>>,
             time_breakdown |-> time_allocation,
             total_poses |-> 0]
    IN  add_sections(sequence, template, time_allocation,
                     IF focus = "balanced" THEN 1 ELSE 2)

build_sequence(duration_minutes, level, style, focus, template, time_allocation) ==
    LET sequence ==
            [class_info |-> [duration |-> duration_minutes,
                             level |-> level,
                             style |-> style,
                             focus |-> focus],
             sequence |-> <<>>,
             time_breakdown |-> time_allocation,
             total_poses |-> 0]
    IN  add_sections(sequence, template, time_allocation, 1)

\* create_yoga_sequence with the upper limit of the duration excluded
create_yoga_sequence_upper_exclusive(duration_minutes, level, style, focus) ==
    IF duration_minutes < 5 \/ duration_minutes >= 90 THEN duration_error
    ELSE IF ~contains(SEQUENCE_TEMPLATES, style) THEN style_error
    ELSE
        LET style_template == get(SEQUENCE_TEMPLATES, style)
            lvl == resolve_level(level, style)
        IN  IF ~contains(style_template, lvl)
            THEN level_error(lvl, style, style_template)
            ELSE build_sequence(duration_minutes, lvl, style, focus,
                                get(style_template, lvl),
                                calculate_time_allocation(duration_minutes, style))

\* create_yoga_sequence falling back to the first level of the style when the
\* level is not available
create_yoga_sequence_level_fallback(duration_minutes, level, style, focus) ==
    IF duration_minutes < 5 \/ duration_minutes > 90 THEN duration_error
    ELSE IF ~contains(SEQUENCE_TEMPLATES, style) THEN style_error
    ELSE
        LET style_template == get(SEQUENCE_TEMPLATES, style)
            lvl == resolve_level(level, style)
            used == IF contains(style_template, lvl) THEN lvl
                    ELSE style_template[1].key
        IN  build_sequence(duration_minutes, used, style, focus,
                           get(style_template, used),
                           calculate_time_allocation(duration_minutes, style))

\* the dict sequence as the loop over time_allocation.items() finds it
sequence_before_loop(duration_minutes, level, style, focus, time_allocation) ==
    [class_info |-> [duration |-> duration_minutes,
                     level |-> level,
                     style |-> style,
                     focus |-> focus],
     sequence |-> <<>>,
     time_breakdown |-> time_allocation,
     total_poses |-> 0]

create_yoga_sequence(duration_minutes, level, style, focus) ==
    IF duration_minutes < 5 \/ duration_minutes > 90 THEN duration_error
    ELSE IF ~contains(SEQUENCE_TEMPLATES, style) THEN style_error
    ELSE
        LET style_template == get(SEQUENCE_TEMPLATES, style)
            lvl == resolve_level(level, style)
        IN  IF ~contains(style_template, lvl)
            THEN level_error(lvl, style, style_template)
            ELSE build_sequence(duration_minutes, lvl, style, focus,
                                get(style_template, lvl),
                                calculate_time_allocation(duration_minutes, style))

(***************************************************************************)
(* What a call leaves in SEQUENCE_TEMPLATES.  template[section] is the     *)
(* list object of the table itself, and select_poses_for_time receives     *)
(* that object: what the function does to its argument is done to the      *)
(* table.                                                                  *)
(***************************************************************************)
\* select_poses_for_time cutting the list it was given (del poses[n:])
poses_after_select_cut(poses, time_minutes) ==
    select_poses_for_time(poses, time_minutes)

\* the list passed to select_poses_for_time, after the call: poses[:n] builds
\* a new list and the argument keeps its items
poses_after_select(poses, time_minutes) == poses

\* templates_after_section keeping the selected poses in the template
templates_after_section_stored(templates, style, level, section, time_mins) ==
    LET style_template == get(templates, style)
        template == get(style_template, level)
    IN  IF contains(template, section) /\ time_mins > 0 THEN
            put(templates, style,
                put(style_template, level,
                    put(template, section,
                        select_poses_for_time(get(template, section), time_mins))))
        ELSE templates

\* the table after one pass of the loop over time_allocation.items()
templates_after_section(templates, style, level, section, time_mins) ==
    LET style_template == get(templates, style)
        template == get(style_template, level)
    IN  IF contains(template, section) /\ time_mins > 0 THEN
            put(templates, style,
                put(style_template, level,
                    put(template, section,
                        poses_after_select(get(template, section), time_mins))))
        ELSE templates

RECURSIVE templates_after_sections(_, _, _, _, _)
\* the table after the loop over time_allocation.items(), from item i on
templates_after_sections(templates, style, level, time_allocation, i) ==
    IF i > Len(time_allocation) THEN templates
    ELSE templates_after_sections(
            templates_after_section(templates, style, level,
                                    time_allocation[i].key, time_allocation[i].value),
            style, level, time_allocation, i + 1)

\* the table after create_yoga_sequence has returned
templates_after_create_yoga_sequence(duration_minutes, level, style, focus) ==
    IF duration_minutes < 5 \/ duration_minutes > 90 THEN SEQUENCE_TEMPLATES
    ELSE IF ~contains(SEQUENCE_TEMPLATES, style) THEN SEQUENCE_TEMPLATES
    ELSE
        LET lvl == resolve_level(level, style)
        IN  IF ~contains(get(SEQUENCE_TEMPLATES, style), lvl)
            THEN SEQUENCE_TEMPLATES
            ELSE templates_after_sections(
                    SEQUENCE_TEMPLATES, style, lvl,
                    calculate_time_allocation(duration_minutes, style), 1)

(***************************************************************************)
(* The resources get_sequence_template and get_pose_details.               *)
(***************************************************************************)
get_sequence_template(style, level) ==
    IF contains(SEQUENCE_TEMPLATES, style)
          /\ contains(get(SEQUENCE_TEMPLATES, style), level)
    THEN json_dumps(get(get(SEQUENCE_TEMPLATES, style), level))
    ELSE json_dumps(<<Item("error", "Template not found")>>)

\* the keys of base_procedures
BaseProcedureNames ==
    {"Mountain Pose", "Child's Pose", "Downward-Facing Dog", "Warrior I",
     "Triangle Pose"}

\* _generate_pose_procedure_internal
generate_pose_procedure_internal(pose_name, sanskrit_name, expertise_level, include_modifications) ==
    LET level_lower == lower_str(chars(expertise_level))
        base_procedure ==
            IF pose_name \in BaseProcedureNames
            THEN [text |-> "base_procedures[pose_name]", pose_name |-> pose_name]
            ELSE [text |-> "This is a {expertise_level.lower()} level yoga pose. ...",
                  expertise_level |-> level_lower]
        added ==
            IF include_modifications /\ level_lower = chars("beginner")
            THEN "**BEGINNER MODIFICATIONS:**"
            ELSE IF include_modifications /\ level_lower = chars("intermediate")
            THEN "**INTERMEDIATE VARIATIONS:**"
            ELSE ""
    IN  [pose_info |-> [name |-> pose_name,
                        sanskrit_name |-> IF sanskrit_name = ""
                                          THEN "Sanskrit name not provided"
                                          ELSE sanskrit_name,
                        expertise_level |-> expertise_level,
                        has_modifications |-> include_modifications],
         procedure |-> [text |-> "**POSE SETUP:** {base_procedure} ...",
                        base_procedure |-> base_procedure,
                        added |-> added],
         estimated_duration |-> "30-60 seconds for beginners, 1-2 minutes for advanced",
         benefits |-> [text |-> "This pose helps improve strength, flexibility, and body awareness appropriate for {expertise_level.lower()} practitioners.",
                       expertise_level |-> level_lower],
         contraindications |-> "Avoid if you have relevant injuries. Consult with a qualified instructor if unsure.",
         generated_by |-> "Yoga Sequencing MCP Server with AI enhancement"]

RECURSIVE concat(_, _)
\* the lists of a list of lists, one after the other, from list i on
concat(lists, i) ==
    IF i > Len(lists) THEN <<>> ELSE lists[i] \o concat(lists, i + 1)

\* the nested loops over style, level, section and pose: where a pose with
\* this name stands, and the pose, in the order the loops meet them
poses_named(pose_name) ==
    LET in_section(style, level, section, poses) ==
            concat([l \in 1..Len(poses) |->
                       IF poses[l].name = pose_name
                       THEN <<[style |-> style, level |-> level,
                               section |-> section, pose |-> poses[l]]>>
                       ELSE <<>>], 1)
        in_level(style, level, template) ==
            concat([k \in 1..Len(template) |->
                       in_section(style, level, template[k].key, template[k].value)], 1)
        in_style(style, style_template) ==
            concat([j \in 1..Len(style_template) |->
                       in_level(style, style_template[j].key, style_template[j].value)], 1)
    IN  concat([i \in 1..Len(SEQUENCE_TEMPLATES) |->
                   in_style(SEQUENCE_TEMPLATES[i].key, SEQUENCE_TEMPLATES[i].value)], 1)

\* get_pose_details reporting only the first place where the pose stands
get_pose_details_first_place(pose_name) ==
    LET named == poses_named(pose_name)
    IN  IF named # <<>> THEN
            LET pose_found == named[1].pose
                procedure_result ==
                    generate_pose_procedure_internal(
                        pose_found.name, pose_found.sanskrit_name,
                        pose_found.expertise_level, TRUE)
            IN  json_dumps(
                    << Item("pose_name", pose_found.name),
                       Item("sanskrit_name", pose_found.sanskrit_name),
                       Item("expertise_level", pose_found.expertise_level),
                       Item("procedure", procedure_result.procedure),
                       Item("benefits", procedure_result.benefits),
                       Item("contraindications", procedure_result.contraindications),
                       Item("estimated_duration", procedure_result.estimated_duration),
                       Item("found_in_styles",
                            << << Item("style", named[1].style),
                                  Item("level", named[1].level),
                                  Item("section", named[1].section) >> >>) >>)
        ELSE json_dumps(<<Item("error",
                              [text |-> "Pose '{pose_name}' not found in templates",
                               pose_name |-> pose_name])>>)

get_pose_details(pose_name) ==
    LET named == poses_named(pose_name)
    IN  IF named # <<>> THEN
            LET pose_found == named[1].pose
                procedure_result ==
                    generate_pose_procedure_internal(
                        pose_found.name, pose_found.sanskrit_name,
                        pose_found.expertise_level, TRUE)
            IN  json_dumps(
                    << Item("pose_name", pose_found.name),
                       Item("sanskrit_name", pose_found.sanskrit_name),
                       Item("expertise_level", pose_found.expertise_level),
                       Item("procedure", procedure_result.procedure),
                       Item("benefits", procedure_result.benefits),
                       Item("contraindications", procedure_result.contraindications),
                       Item("estimated_duration", procedure_result.estimated_duration),
                       Item("found_in_styles",
                            [n \in 1..Len(named) |->
                                << Item("style", named[n].style),
                                   Item("level", named[n].level),
                                   Item("section", named[n].section) >>]) >>)
        ELSE json_dumps(<<Item("error",
                              [text |-> "Pose '{pose_name}' not found in templates",
                               pose_name |-> pose_name])>>)

(***************************************************************************)
(* Audio through Piper TTS.  What the Piper package and the file system do *)
(* is not decided by the program: piper says whether the package imports,  *)
(* whether the voice model file exists, whether loading and synthesis      *)
(* succeed and which audio comes out; files says which writes succeed.     *)
(***************************************************************************)
\* the keys of basic_instructions
BasicInstructionNames ==
    {"Mountain Pose", "Child's Pose", "Downward-Facing Dog", "Warrior I",
     "Triangle Pose", "Tree Pose", "Cat-Cow Pose", "Bridge Pose", "Corpse Pose"}

create_simple_calming_script(pose_name, include_breathing_cues) ==
    [text |-> "{intro} {instruction}{breathing}{conclusion}",
     intro |-> [text |-> "Let's gently move into {pose_name}.",
                pose_name |-> pose_name],
     instruction |->
        IF pose_name \in BasicInstructionNames
        THEN [text |-> "basic_instructions[pose_name]", pose_name |-> pose_name]
        ELSE [text |-> "Move into this pose slowly and gently. Listen to your body."],
     breathing |-> IF include_breathing_cues THEN " Breathe slowly and deeply." ELSE "",
     conclusion |-> " Stay here for a few breaths. Come out gently when ready."]

\* call_piper_tts_api loading the voice model without looking for its file
call_piper_tts_api_unchecked(text, voice, piper) ==
    IF ~piper.importable THEN
        [success |-> FALSE,
         error |-> [text |-> "Piper TTS not installed: {str(e)}",
                    e |-> "No module named 'piper'"],
         suggestion |-> [text |-> "Install with: pip install piper-tts"]]
    ELSE IF ~piper.model_exists \/ ~piper.load_ok THEN
        [success |-> FALSE,
         error |-> [text |-> "Piper TTS error: {str(e)}", e |-> "load failed"]]
    ELSE IF ~piper.synthesize_ok THEN
        [success |-> FALSE,
         error |-> [text |-> "Piper TTS error: {str(e)}", e |-> "synthesis failed"]]
    ELSE
        [success |-> TRUE,
         audio_base64 |-> b64encode(piper.audio_data),
         size_bytes |-> Len(piper.audio_data),
         format |-> "wav",
         voice |-> voice,
         model |-> "piper-tts",
         voice_model_path |-> [text |-> "./models/{voice}.onnx", voice |-> voice]]

call_piper_tts_api(text, voice, piper) ==
    IF ~piper.importable THEN
        [success |-> FALSE,
         error |-> [text |-> "Piper TTS not installed: {str(e)}",
                    e |-> "No module named 'piper'"],
         suggestion |-> [text |-> "Install with: pip install piper-tts"]]
    ELSE IF ~piper.model_exists THEN
        [success |-> FALSE,
         error |-> [text |-> "Voice model {voice}.onnx not found in ./models/ folder",
                    voice |-> voice],
         suggestion |-> [text |-> "Please ensure {voice}.onnx is in the models directory",
                         voice |-> voice]]
    ELSE IF ~piper.load_ok THEN
        [success |-> FALSE,
         error |-> [text |-> "Piper TTS error: {str(e)}", e |-> "load failed"]]
    ELSE IF ~piper.synthesize_ok THEN
        [success |-> FALSE,
         error |-> [text |-> "Piper TTS error: {str(e)}", e |-> "synthesis failed"]]
    ELSE
        [success |-> TRUE,
         audio_base64 |-> b64encode(piper.audio_data),
         size_bytes |-> Len(piper.audio_data),
         format |-> "wav",
         voice |-> voice,
         model |-> "piper-tts",
         voice_model_path |-> [text |-> "./models/{voice}.onnx", voice |-> voice]]

\* the except clause around the Piper call and the delivery
piper_tts_error(e, audio_script) ==
    [error |-> [text |-> "Piper TTS error: {str(e)}", e |-> e],
     fallback_text |-> audio_script,
     suggestion |-> [text |-> "Make sure Piper TTS is installed: pip install piper-tts"]]

generate_pose_audio_with_piper(asana_name, voice, include_breathing_cues, output_preference, user_save_path, piper, files) ==
    LET procedure_result ==
            generate_pose_procedure_internal(asana_name, "", "Beginner", FALSE)
    IN  IF "error" \in DOMAIN procedure_result THEN
            [error |-> [text |-> "Could not find procedure for pose: {asana_name}",
                        asana_name |-> asana_name],
             suggestion |-> [text |-> "Please check the pose name and try again"]]
        ELSE
        LET pose_info == procedure_result.pose_info
            audio_script ==
                create_simple_calming_script(pose_info.name, include_breathing_cues)
            audio_result == call_piper_tts_api(audio_script, voice, piper)
        IN  IF ~audio_result.success THEN
                [error |-> [text |-> "Failed to generate audio"],
                 details |-> audio_result.error,
                 fallback_text |-> audio_script]
            ELSE
            LET audio_base64 == audio_result.audio_base64
                audio_size == audio_result.size_bytes
                audio_data == b64decode(audio_base64)
                safe_name ==
                    lower_str(replace(replace(chars(asana_name), " ", "_"), "/", "_"))
                filename == [text |-> "yoga_{safe_name}_{voice}.wav",
                             safe_name |-> safe_name, voice |-> voice]
                response ==
                    [pose_info |-> [name |-> pose_info.name,
                                    type |-> "Free offline calming instruction"],
                     audio_info |-> [format |-> "wav",
                                     voice |-> voice,
                                     size_bytes |-> audio_size,
                                     duration_estimate |-> "30-60 seconds",
                                     breathing_cues_included |-> include_breathing_cues,
                                     filename |-> filename],
                     script_text |-> audio_script,
                     delivery_method |-> output_preference,
                     generated_by |-> "Yoga Sequencing MCP Server - User-Friendly Audio"]
            IN  IF output_preference = "download_link" THEN
                    IF ~files.temp_write_ok
                    THEN piper_tts_error("[Errno 13] Permission denied", audio_script)
                    ELSE response @@
                        [download_info |->
                            [message |-> "Audio file ready for download",
                             filename |-> filename,
                             file_size_kb |-> round_kb_1(Len(audio_data)),
                             download_ready |-> TRUE,
                             user_instructions |->
                                [text |-> "Your audio file '{filename}' has been generated. You can access it from the temporary downloads folder.",
                                 filename |-> filename],
                             file_location |-> "Saved in temp_downloads directory"]]
                ELSE IF output_preference = "base64_data" THEN
                    response @@
                        [audio_data |->
                            [base64_content |-> audio_base64,
                             encoding |-> "base64",
                             format |-> "wav",
                             size_bytes |-> Len(audio_data),
                             usage_instructions |-> "Decode base64 to get WAV audio data",
                             ready_for_streaming |-> TRUE]]
                ELSE IF output_preference = "save_to_user_path" THEN
                    IF user_save_path = "" THEN
                        [error |-> [text |-> "User save path required when output_preference is 'save_to_user_path'"],
                         suggestion |-> [text |-> "Please provide a user_save_path parameter"]]
                    ELSE IF files.user_write_ok THEN
                        response @@
                            [save_info |->
                                [saved |-> TRUE,
                                 filepath |-> [directory |-> user_save_path,
                                               filename |-> filename],
                                 filename |-> filename,
                                 directory |-> user_save_path,
                                 file_size_kb |-> round_kb_1(Len(audio_data)),
                                 message |-> [text |-> "Audio saved to your specified location: {filename}",
                                              filename |-> filename]]]
                    ELSE
                        response @@
                            [save_info |->
                                [saved |-> FALSE,
                                 error |-> "[Errno 13] Permission denied",
                                 attempted_path |-> user_save_path,
                                 message |-> "Failed to save to user-specified path"]]
                ELSE response

\* create_audio_stream_from_response: the stream is its bytes and its position
create_audio_stream_from_response(response) ==
    IF ~(/\ "audio_data" \in DOMAIN response
         /\ "audio_content" \in DOMAIN response.audio_data
         /\ Len(response.audio_data.audio_content) > 0)
    THEN [raised |-> "ValueError: No audio content found in response"]
    ELSE [value |-> [getvalue |-> b64decode(response.audio_data.audio_content),
                     tell |-> 0]]

\* stream_pose_audio_example: what it prints, with the stream it made
stream_pose_audio_example(pose_name, voice, piper, files) ==
    LET result == generate_pose_audio_with_piper(pose_name, voice, TRUE,
                                                 "base64_data", "", piper, files)
    IN  IF "raised" \in DOMAIN result THEN
            [printed |-> "Streaming error: {e}", e |-> result.raised]
        ELSE IF "audio_data" \in DOMAIN result THEN
            LET audio_stream == create_audio_stream_from_response(result)
            IN  IF "raised" \in DOMAIN audio_stream THEN
                    [printed |-> "Streaming error: {e}", e |-> audio_stream.raised]
                ELSE [printed |-> "Audio stream ready!",
                      audio_stream |-> audio_stream.value]
        ELSE [printed |-> "Failed to generate audio: {error}",
              error |-> IF "error" \in DOMAIN result THEN result.error
                        ELSE "Unknown error"]

(***************************************************************************)
(* The soloscale_poseflow server (poseflow_mcp/main.py, and the tools of   *)
(* its stdio variant poseflow-mcp/src/poseflow_mcp/server.py).             *)
(*                                                                         *)
(* An Optional argument is the empty sequence for None and <<v>> for the   *)
(* value v.  A float between 0 and 1 is the integer 10000 times its value  *)
(* (four decimals).  A function that can raise returns [value |-> v] or    *)
(* [raised |-> e]; a tool whose exception escapes returns [raised |-> e].  *)
(* What the SMTP server, the Slack webhook and the pose backend do is not  *)
(* decided by the program and comes with each call.                        *)
(***************************************************************************)
None == <<>>

Some(v) == <<v>>

\* bool(x) of an Optional[str]
truthy(x) == x # None /\ x[1] # ""

\* a clamp that forgets the lower end
clamp_below_1(value) == min(10000, value)

\* max(0.0, min(1.0, float(value)))
clamp_0_1(value) == max(0, min(10000, value))

\* round(score, 3) of a score with four decimals that is not a tie
round_3(score) == ((score + 5) \div 10) * 10

\* _recommend
recommend(pose, score, threshold) ==
    IF score >= max(threshold, 9000)
    THEN [text |-> "Bravo! {pose} looks great. Hold for 3 slow breaths.", pose |-> pose]
    ELSE IF score >= threshold
    THEN [text |-> "Nice {pose}. Micro-adjust: lengthen spine and keep shoulders relaxed.", pose |-> pose]
    ELSE IF score >= threshold - 1000
    THEN [text |-> "You're close to {pose}. Try aligning hips and press evenly through the feet.", pose |-> pose]
    ELSE [text |-> "Keep adjusting toward {pose}. Start with foundation: stance width and knee tracking.", pose |-> pose]

\* record_pose of poseflow_mcp/main.py; backend is what requests.post does
record_pose(landmarks, image_url, image_b64, threshold, backend) ==
    LET th == IF threshold # None THEN threshold[1] ELSE POSEFLOW_STATE.threshold
    IN  IF ~(Len(landmarks) > 0 \/ truthy(image_url) \/ truthy(image_b64)) THEN
            [error |-> "Provide landmarks or image_url/image_b64"]
        ELSE IF backend.raises THEN
            [error |-> "backend_unreachable", details |-> backend.e,
             backend |-> "POSE_API"]
        ELSE IF backend.status_code # 200 THEN
            [error |-> "backend_error", status |-> backend.status_code,
             data |-> backend.data]
        ELSE IF ~("top" \in DOMAIN backend.data) THEN
            [error |-> "unexpected_backend_shape", data |-> backend.data]
        ELSE
            LET pose == backend.data.top.name
                score == backend.data.top.score
                passed == backend.data.passed
            IN  [pose |-> pose,
                 similarity |-> round_3(score),
                 passed |-> passed,
                 threshold_used |-> th,
                 recommendation |-> recommend(pose, score, th),
                 scores |-> backend.data.scores]

\* a celebrate_if_correct that takes an explicit threshold of 0.0 for none
celebrate_if_correct_truthy(pose, confidence, threshold) ==
    LET th == IF threshold # None /\ threshold[1] # 0
              THEN threshold[1] ELSE POSEFLOW_STATE.threshold
    IN  IF confidence >= th THEN "Bravo! Pose achieved."
        ELSE "Keep adjusting-you're close!"

\* celebrate_if_correct of poseflow-mcp (main.py and server.py)
celebrate_if_correct(pose, confidence, threshold) ==
    LET th == IF threshold # None THEN threshold[1] ELSE POSEFLOW_STATE.threshold
    IN  IF confidence >= th THEN "Bravo! Pose achieved."
        ELSE "Keep adjusting-you're close!"

\* send_email of notifications.py, or the stub bound when its import failed
send_email(subject, body, to_email, mail) ==
    IF ~notifications_imported THEN
        [value |-> [ok |-> TRUE, to |-> to_email, subject |-> subject, body |-> body]]
    ELSE IF ~(mail.smtp_configured /\ to_email # "") THEN
        [value |-> "Email not configured"]
    ELSE IF ~mail.smtp_ok THEN [raised |-> "smtplib.SMTPException"]
    ELSE [value |-> "Email sent"]

\* send_slack of notifications.py, or the stub bound when its import failed
send_slack(webhook, text, mail) ==
    IF ~notifications_imported THEN
        [value |-> [ok |-> TRUE, webhook |-> webhook, text |-> text]]
    ELSE IF webhook = "" THEN [value |-> "Slack not configured"]
    ELSE IF ~mail.slack_ok THEN [raised |-> "httpx.HTTPStatusError"]
    ELSE [value |-> "Slack sent"]

\* f"Student {student_id} completed {pose} successfully."
preview_text(student_id, pose) ==
    [text |-> "Student {student_id} completed {pose} successfully.",
     student_id |-> student_id, pose |-> pose]

\* f"{student_id} - {pose} achieved"
subject_text(student_id, pose) ==
    [text |-> "{student_id} - {pose} achieved",
     student_id |-> student_id, pose |-> pose]

\* status["sent"] after the two sends, given what they returned
sent_after(teacher_email, slack_webhook, email_result, slack_result) ==
    (IF truthy(teacher_email) THEN [email |-> email_result.value] ELSE <<>>)
        @@ (IF truthy(slack_webhook) THEN [slack |-> slack_result.value] ELSE <<>>)

\* notify_teacher of poseflow_mcp/main.py
notify_teacher(pose, student_id, teacher_email, slack_webhook, confirm, mail) ==
    LET has_destination == truthy(teacher_email) \/ truthy(slack_webhook)
    IN  IF ~confirm THEN
            [action |-> "preview",
             message |->
                IF has_destination
                THEN "Do you want me to send this result to your Yoga teacher?"
                ELSE "No destination provided. Add teacher_email and/or slack_webhook to send.",
             payload |-> [pose |-> pose,
                          student_id |-> student_id,
                          teacher_email |-> teacher_email,
                          slack_webhook |-> slack_webhook,
                          text |-> preview_text(student_id, pose),
                          confirm |-> TRUE]]
        ELSE IF ~has_destination THEN
            [error |-> "No destination configured. Provide teacher_email and/or slack_webhook."]
        ELSE
            LET email_result ==
                    IF truthy(teacher_email)
                    THEN send_email(subject_text(student_id, pose),
                                    preview_text(student_id, pose),
                                    teacher_email[1], mail)
                    ELSE [value |-> None]
                slack_result ==
                    IF truthy(slack_webhook)
                    THEN send_slack(slack_webhook[1], preview_text(student_id, pose), mail)
                    ELSE [value |-> None]
            IN  IF "raised" \in DOMAIN email_result THEN email_result
                ELSE IF "raised" \in DOMAIN slack_result THEN slack_result
                ELSE [sent |-> sent_after(teacher_email, slack_webhook,
                                          email_result, slack_result),
                      ok |-> TRUE]

\* what server.sendmail and cx.post took during the two sends of one call:
\* send_email returns "Email sent" only after sendmail, send_slack returns
\* "Slack sent" only after the post was accepted, and send_slack is not
\* reached when send_email raised
delivered(pose, student_id, teacher_email, slack_webhook, mail) ==
    LET email_result ==
            IF truthy(teacher_email)
            THEN send_email(subject_text(student_id, pose),
                            preview_text(student_id, pose), teacher_email[1], mail)
            ELSE [value |-> None]
        slack_result ==
            IF truthy(slack_webhook) /\ ~("raised" \in DOMAIN email_result)
            THEN send_slack(slack_webhook[1], preview_text(student_id, pose), mail)
            ELSE [value |-> None]
        taken(destination, result, said) ==
            /\ truthy(destination)
            /\ notifications_imported
            /\ "value" \in DOMAIN result
            /\ result.value = said
    IN  (IF taken(teacher_email, email_result, "Email sent")
         THEN <<[channel |-> "email", to |-> teacher_email[1],
                 subject |-> subject_text(student_id, pose),
                 body |-> preview_text(student_id, pose)]>>
         ELSE <<>>)
        \o (IF taken(slack_webhook, slack_result, "Slack sent")
            THEN <<[channel |-> "slack", webhook |-> slack_webhook[1],
                    text |-> preview_text(student_id, pose)]>>
            ELSE <<>>)

\* the outbox after a notify_teacher that sends whatever confirm says
outbox_after_notify_teacher_unconfirmed(sent, pose, student_id, teacher_email, slack_webhook, confirm, mail) ==
    sent \o delivered(pose, student_id, teacher_email, slack_webhook, mail)

\* the outbox after notify_teacher: the sends are reached only past the two
\* early returns
outbox_after_notify_teacher(sent, pose, student_id, teacher_email, slack_webhook, confirm, mail) ==
    IF ~confirm THEN sent
    ELSE IF ~(truthy(teacher_email) \/ truthy(slack_webhook)) THEN sent
    ELSE sent \o delivered(pose, student_id, teacher_email, slack_webhook, mail)

\* the outbox after send_to_teacher, which has no confirm argument
outbox_after_send_to_teacher(sent, pose, student_id, teacher_email, slack_webhook, mail) ==
    sent \o delivered(pose, student_id, teacher_email, slack_webhook, mail)

\* send_to_teacher of poseflow-mcp/src/poseflow_mcp/server.py
send_to_teacher(pose, student_id, teacher_email, slack_webhook, mail) ==
    LET email_result ==
            IF truthy(teacher_email)
            THEN send_email(subject_text(student_id, pose),
                            preview_text(student_id, pose), teacher_email[1], mail)
            ELSE [value |-> None]
        slack_result ==
            IF truthy(slack_webhook)
            THEN send_slack(slack_webhook[1], preview_text(student_id, pose), mail)
            ELSE [value |-> None]
        status == sent_after(teacher_email, slack_webhook, email_result, slack_result)
    IN  IF "raised" \in DOMAIN email_result THEN email_result
        ELSE IF "raised" \in DOMAIN slack_result THEN slack_result
        ELSE (IF DOMAIN status = {} THEN [info |-> "No destination configured"]
              ELSE status) @@ [ok |-> TRUE]

(***************************************************************************)
(* The yoga-curriculum server (yoga_curriculum_mcp_server.py).  What the   *)
(* Qdrant client, the embedding model and the Mistral client do is not     *)
(* decided by the program and comes with each call.                        *)
(***************************************************************************)
DemoPose(n, s, level, types) ==
    [pose |-> [name |-> n, sanskrit_name |-> s,
               expertise_level |-> title(chars(level)), pose_type |-> types]]

get_demo_poses(level) ==
    << DemoPose("Mountain Pose", "Tadasana", level, <<"Standing">>),
       DemoPose("Tree Pose", "Vrikshasana", level, <<"Standing", "Balancing">>),
       DemoPose("Warrior I Pose", "Virabhadrasana A", level, <<"Standing">>),
       DemoPose("Warrior II Pose", "Virabhadrasana B", level, <<"Standing">>),
       DemoPose("Chair Pose", "Utkatasana", level, <<"Standing", "Balancing">>),
       DemoPose("Easy Pose", "Sukhasana", level, <<"Seated">>),
       DemoPose("Child's Pose", "Balasana", level, <<"Supine">>),
       DemoPose("Corpse Pose", "Savasana", level, <<"Supine">>) >>

\* expertise_filter or "beginner"
filter_or_beginner(expertise_filter) ==
    IF truthy(expertise_filter) THEN expertise_filter[1] ELSE "beginner"

\* search_yoga_poses cutting the demo poses to the limit
search_yoga_poses_limited(query, limit, expertise_filter, search) ==
    IF qdrant_client = None \/ embedding_model = None THEN
        slice_to(get_demo_poses(filter_or_beginner(expertise_filter)), limit)
    ELSE IF search.raises THEN
        get_demo_poses(filter_or_beginner(expertise_filter))
    ELSE
        LET points == slice_to(search.ranked, limit)
        IN  [n \in 1..Len(points) |->
                [id |-> points[n].id, score |-> points[n].score,
                 pose |-> points[n].payload]]

\* search is what encode and query_points do; Qdrant returns at most limit points
search_yoga_poses(query, limit, expertise_filter, search) ==
    IF qdrant_client = None \/ embedding_model = None THEN
        get_demo_poses(filter_or_beginner(expertise_filter))
    ELSE IF search.raises THEN
        get_demo_poses(filter_or_beginner(expertise_filter))
    ELSE
        LET points == slice_to(search.ranked, limit)
        IN  [n \in 1..Len(points) |->
                [id |-> points[n].id, score |-> points[n].score,
                 pose |-> points[n].payload]]

\* search_yoga_poses as a tool calls it, the globals being those that its
\* initialisation step left
search_yoga_poses_after(globals, query, limit, expertise_filter, search) ==
    IF globals.qdrant_client = None \/ globals.embedding_model = None THEN
        get_demo_poses(filter_or_beginner(expertise_filter))
    ELSE IF search.raises THEN
        get_demo_poses(filter_or_beginner(expertise_filter))
    ELSE
        LET points == slice_to(search.ranked, limit)
        IN  [n \in 1..Len(points) |->
                [id |-> points[n].id, score |-> points[n].score,
                 pose |-> points[n].payload]]

(***************************************************************************)
(* EnhancedYogaCurriculumGenerator (enhanced_yoga_curriculum_generator.py).*)
(* A generator is the record of its attribute mistral_client; mistral is   *)
(* what the Mistral chat call does during one call.                        *)
(***************************************************************************)
\* EnhancedYogaCurriculumGenerator(): key is MISTRAL_API_KEY in the environment
EnhancedYogaCurriculumGenerator(mistral_available, key) ==
    [mistral_client |->
        IF mistral_available /\ key # "" THEN Some("MistralClient") ELSE None]

\* self.class_structures, the durations and whether a balancing one is there
class_structures ==
    << Item(chars("beginner"),
            << Item("warm_up_duration", 5), Item("standing_duration", 10),
               Item("seated_floor_duration", 10), Item("relaxation_duration", 5) >>),
       Item(chars("intermediate"),
            << Item("warm_up_duration", 5), Item("standing_duration", 12),
               Item("seated_floor_duration", 10), Item("balancing_duration", 5),
               Item("relaxation_duration", 3) >>),
       Item(chars("advanced"),
            << Item("warm_up_duration", 3), Item("standing_duration", 15),
               Item("seated_floor_duration", 8), Item("balancing_duration", 6),
               Item("inversions_duration", 5), Item("relaxation_duration", 3) >>) >>

\* int(duration * scale_factor) with scale_factor = duration_minutes / 30,
\* for class durations whose thirtieth is exact in binary
scaled(duration, duration_minutes) == (duration * duration_minutes) \div 30

\* one entry of the dict sections
Section(name, duration, purpose, instructions) ==
    [name |-> name, duration |-> duration, purpose |-> purpose,
     poses |-> <<>>, instructions |-> instructions]

\* _create_class_sections
create_class_sections(structure, duration_minutes, focus_theme) ==
    << Item("warm_up",
            Section("Warm-up & Centering",
                    max(2, scaled(get(structure, "warm_up_duration"), duration_minutes)),
                    "Prepare the body and mind for practice",
                    <<"Begin in a comfortable seated position",
                      "Take 5-10 deep breaths to center yourself",
                      "Gentle neck and shoulder rolls",
                      "Cat-cow movements to warm the spine">>)),
       Item("standing",
            Section("Standing Poses",
                    max(5, scaled(get(structure, "standing_duration"), duration_minutes)),
                    "Build strength, stability, and heat in the body",
                    <<"Focus on grounding through feet",
                      "Engage core muscles",
                      "Breathe deeply throughout poses">>)),
       Item("seated_floor",
            Section("Seated & Floor Poses",
                    max(5, scaled(get(structure, "seated_floor_duration"), duration_minutes)),
                    "Deepen flexibility and introspection",
                    <<"Sit tall with spine elongated",
                      "Use props as needed for comfort",
                      "Focus on gentle, mindful movements">>)) >>
    \o (IF contains(structure, "balancing_duration")
        THEN << Item("balancing",
                     Section("Balance & Focus",
                             max(2, scaled(get(structure, "balancing_duration"), duration_minutes)),
                             "Develop concentration and stability",
                             <<"Find a focal point (drishti)",
                               "Engage core for stability",
                               "Use wall or props for support if needed">>)) >>
        ELSE <<>>)
    \o << Item("relaxation",
               Section("Relaxation & Savasana",
                       max(3, scaled(get(structure, "relaxation_duration"), duration_minutes)),
                       "Integration and deep rest",
                       <<"Lie comfortably on your back",
                         "Allow the body to completely relax",
                         "Focus on the breath or guided meditation",
                         "Rest for 3-5 minutes minimum">>)) >>

\* sub in text, for two strings
contains_text(text, sub) ==
    \E i \in 1..(Len(text) - Len(sub) + 1) : SubSeq(text, i, i + Len(sub) - 1) = sub

\* the if/elif chain of _assign_poses_to_sections: the category a pose type
\* puts its pose in, "" when none
category_of(pose_type) ==
    LET text == chars(pose_type)
    IN  IF contains_text(text, chars("Standing")) THEN "standing"
        ELSE IF contains_text(text, chars("Seated")) THEN "seated"
        ELSE IF contains_text(text, chars("Balancing")) THEN "balancing"
        ELSE IF contains_text(text, chars("Supine")) THEN "supine"
        ELSE IF contains_text(text, chars("Prone")) THEN "prone"
        ELSE IF contains_text(text, chars("Back Bend")) THEN "backbend"
        ELSE IF contains_text(text, chars("Forward Bend")) THEN "forward_bend"
        ELSE ""

RECURSIVE appended_for_types(_, _, _)
\* what the inner loop over pose_types appends to one category for one pose
appended_for_types(pose, pose_types, category) ==
    IF pose_types = <<>> THEN <<>>
    ELSE (IF category_of(Head(pose_types)) = category THEN <<pose>> ELSE <<>>)
         \o appended_for_types(pose, Tail(pose_types), category)

RECURSIVE pose_category(_, _)
\* pose_categories[category] after the loop over level_poses
pose_category(level_poses, category) ==
    IF level_poses = <<>> THEN <<>>
    ELSE appended_for_types(Head(level_poses).pose,
                            Head(level_poses).pose.pose_type, category)
         \o pose_category(Tail(level_poses), category)

\* the poses of poses_data whose expertise level is the level of the class
level_poses_of(poses_data, level) ==
    SelectSeq(poses_data,
              LAMBDA pose_data :
                  lower_str(pose_data.pose.expertise_level) = lower_str(chars(level)))

\* the section under key with its poses replaced, when the key is there
with_poses(sections, key, poses) ==
    IF contains(sections, key)
    THEN put(sections, key, [get(sections, key) EXCEPT !.poses = poses])
    ELSE sections

\* _assign_poses_to_sections
assign_poses_to_sections(sections, poses_data, level) ==
    LET level_poses == level_poses_of(poses_data, level)
        standing == slice_to(pose_category(level_poses, "standing"), 4)
        seated_poses == slice_to(pose_category(level_poses, "seated"), 2)
        supine_poses == slice_to(pose_category(level_poses, "supine"), 2)
        balancing == slice_to(pose_category(level_poses, "balancing"), 3)
    IN  with_poses(
            with_poses(
                with_poses(sections, "standing", standing),
                "seated_floor", seated_poses \o supine_poses),
            "balancing", balancing)

\* d.get(k, default)
get_or(d, k, default) == IF contains(d, k) THEN get(d, k) ELSE default

\* _generate_teaching_notes
generate_teaching_notes(level, focus_theme) ==
    LET level_specific_notes ==
            << Item(chars("beginner"),
                    <<"Explain basic alignment principles clearly",
                      "Demonstrate poses before students attempt them",
                      "Emphasize that yoga is not competitive",
                      "Check in frequently with students",
                      "Use props generously to support students">>),
               Item(chars("intermediate"),
                    <<"Offer both easier and more challenging variations",
                      "Focus on refining alignment and breath awareness",
                      "Introduce some longer holds for strength building",
                      "Encourage mindful transitions between poses",
                      "Begin introducing philosophical concepts">>),
               Item(chars("advanced"),
                    <<"Assume basic knowledge but still cue important details",
                      "Offer advanced variations and deeper expressions",
                      "Focus on subtle body awareness and energy",
                      "Include philosophical elements and meditation",
                      "Challenge students while maintaining safety">>) >>
    IN  <<"Remind students to listen to their bodies",
          "Offer modifications for all poses",
          "Encourage steady, deep breathing",
          "Create a welcoming, non-judgmental atmosphere">>
        \o get_or(level_specific_notes, lower_str(chars(level)), <<>>)

\* _get_safety_guidelines
get_safety_guidelines(level) ==
    LET level_specific ==
            << Item(chars("beginner"),
                    <<"Never force your body into a pose",
                      "It's okay to rest in child's pose anytime",
                      "Focus on breath over perfect alignment initially">>),
               Item(chars("intermediate"),
                    <<"Respect your limits even as you explore them",
                      "Use the breath as a guide for intensity",
                      "Back off if you feel strain in joints">>),
               Item(chars("advanced"),
                    <<"Maintain ego awareness in challenging poses",
                      "Honor your body's wisdom over external expectations",
                      "Practice ahimsa (non-violence) toward yourself">>) >>
    IN  <<"Always warm up before deeper poses",
          "Move slowly and mindfully",
          "Stop if you feel pain (not just discomfort)",
          "Use props to support your practice",
          "Inform instructor of any injuries or limitations",
          "Stay hydrated throughout practice">>
        \o get_or(level_specific, lower_str(chars(level)), <<>>)

\* _parse_mistral_text_response; content is a text and its length
parse_mistral_text_response(content) ==
    << Item("enhanced_teaching_cues",
            << Item("general",
                    IF content.length > 500
                    THEN <<[text |-> "{content[:500]}...", content |-> content.text]>>
                    ELSE <<content.text>>) >>),
       Item("advanced_insights", <<"Enhanced with Mistral AI insights">>),
       Item("modifications_and_props", <<"Use props as needed for comfort and safety">>),
       Item("breathing_philosophy",
            << Item("breathing_cues", "Focus on steady, deep breathing throughout practice"),
               Item("philosophy_notes", "Cultivate mindfulness and presence") >>),
       Item("common_mistakes", <<"Listen to your body and avoid forcing poses">>) >>

\* the loop of _integrate_mistral_enhancements over the sections
sections_with_cues(sections, enhanced_cues) ==
    [i \in 1..Len(sections) |->
        IF contains(enhanced_cues, sections[i].key)
        THEN Item(sections[i].key,
                  [enhanced_cues |-> get(enhanced_cues, sections[i].key)]
                      @@ sections[i].value)
        ELSE IF contains(enhanced_cues, "general")
        THEN Item(sections[i].key,
                  [enhanced_cues |-> get(enhanced_cues, "general")]
                      @@ sections[i].value)
        ELSE sections[i]]

\* _integrate_mistral_enhancements, for enhancements that are a dict
integrate_mistral_enhancements(class_plan, enhancements) ==
    [mistral_enhancements |->
        [advanced_insights |-> get_or(enhancements, "advanced_insights", <<>>),
         modifications_and_props |-> get_or(enhancements, "modifications_and_props", <<>>),
         breathing_philosophy |-> get_or(enhancements, "breathing_philosophy", <<>>),
         common_mistakes |-> get_or(enhancements, "common_mistakes", <<>>)]]
    @@ [class_plan EXCEPT
            !.sections = sections_with_cues(
                             class_plan.sections,
                             get_or(enhancements, "enhanced_teaching_cues", <<>>)),
            !.metadata.enhanced_with_mistral = TRUE]

\* _enhance_with_mistral: the prompt built from the plan goes to the chat
\* call; mistral is what that call does.  JSON that is not an object has no
\* get, and every exception leaves as "Mistral API error: ..."
enhance_with_mistral(class_plan, level, focus_theme, mistral) ==
    IF mistral.raises THEN
        [raised |-> [text |-> "Mistral API error: {str(e)}", e |-> mistral.e]]
    ELSE IF mistral.content.kind = "json_array" THEN
        [raised |-> [text |-> "Mistral API error: {str(e)}",
                     e |-> "'list' object has no attribute 'get'"]]
    ELSE
        LET mistral_enhancements ==
                IF mistral.content.kind = "json_object" THEN mistral.content.value
                ELSE parse_mistral_text_response(mistral.content)
        IN  [value |-> integrate_mistral_enhancements(class_plan, mistral_enhancements)]

RECURSIVE total_poses_of(_)
\* sum(len(section.get("poses", [])) for section in sections.values())
total_poses_of(sections) ==
    IF sections = <<>> THEN 0
    ELSE Len(Head(sections).value.poses) + total_poses_of(Tail(sections))

\* create_enhanced_class_plan of the generator self; now is the clock's text
create_enhanced_class_plan(self, level, duration_minutes, focus_theme, poses_data, use_mistral_enhancement, mistral, now) ==
    IF ~contains(class_structures, lower_str(chars(level))) THEN
        [raised |-> [text |-> "Unsupported level: {level}. Use beginner, intermediate, or advanced.",
                     level |-> level]]
    ELSE
    LET structure == get(class_structures, lower_str(chars(level)))
        created == create_class_sections(structure, duration_minutes, focus_theme)
        sections ==
            IF Len(poses_data) > 0
            THEN assign_poses_to_sections(created, poses_data, level)
            ELSE created
        class_plan ==
            [metadata |->
                [title |-> [text |-> "{level.title()} Yoga Class",
                            level |-> title(chars(level))],
                 duration |-> duration_minutes,
                 level |-> title(chars(level)),
                 focus_theme |-> IF focus_theme # "" THEN focus_theme
                                 ELSE "General Practice",
                 created_date |-> now,
                 total_poses |-> total_poses_of(sections),
                 enhanced_with_mistral |->
                     use_mistral_enhancement /\ self.mistral_client # None],
             sections |-> sections,
             notes |-> generate_teaching_notes(level, focus_theme),
             safety_guidelines |-> get_safety_guidelines(level)]
    IN  IF use_mistral_enhancement /\ self.mistral_client # None THEN
            LET enhanced_plan ==
                    enhance_with_mistral(class_plan, level, focus_theme, mistral)
            IN  IF "raised" \in DOMAIN enhanced_plan THEN
                    [class_plan EXCEPT !.metadata =
                        [mistral_enhancement_error |-> enhanced_plan.raised]
                            @@ class_plan.metadata]
                ELSE enhanced_plan.value
        ELSE class_plan

(***************************************************************************)
(* The tools of the yoga-curriculum server and its initialisation.         *)
(***************************************************************************)
\* the globals as a call that assigns none of them leaves them, with the
\* value it returns
globals_unchanged(value) ==
    [qdrant_client |-> qdrant_client, embedding_model |-> embedding_model,
     enhanced_generator |-> enhanced_generator,
     initialized |-> initialized, value |-> value]

\* the try block of initialize_components: the globals it leaves and the
\* value it returns; made tells which of the constructors succeed and
\* made.id which objects they make
construct_components(made) ==
    LET with_credentials == config.qdrant_url # "" /\ config.qdrant_api_key # ""
        generator_raises ==
            MISTRAL_AVAILABLE /\ config.mistral_api_key # "" /\ ~made.generator_ok
        client_after ==
            IF with_credentials THEN Some([class |-> "QdrantClient", id |-> made.id])
            ELSE qdrant_client
        model_after ==
            IF with_credentials
            THEN Some([class |-> "SentenceTransformer", id |-> made.id])
            ELSE embedding_model
    IN  IF ~QDRANT_AVAILABLE THEN globals_unchanged(FALSE)
        ELSE IF with_credentials /\ ~made.client_ok THEN globals_unchanged(FALSE)
        ELSE IF with_credentials /\ ~made.model_ok THEN
            [globals_unchanged(FALSE) EXCEPT !.qdrant_client = client_after]
        ELSE IF generator_raises THEN
            [globals_unchanged(FALSE) EXCEPT !.qdrant_client = client_after,
                                             !.embedding_model = model_after]
        ELSE
            [qdrant_client |-> client_after, embedding_model |-> model_after,
             enhanced_generator |->
                 Some([id |-> made.id] @@
                      EnhancedYogaCurriculumGenerator(MISTRAL_AVAILABLE,
                                                      config.mistral_api_key)),
             initialized |-> TRUE, value |-> TRUE]

\* an initialisation that runs its constructors on every call
initialize_components_unguarded(made) == construct_components(made)

\* initialize_components: "if initialized: return True", then the try block
initialize_components(made) ==
    IF initialized THEN globals_unchanged(TRUE) ELSE construct_components(made)

\* the level name whose characters these are
str_of(cs) == CHOOSE name \in {"Beginner", "Intermediate", "Advanced"} : chars(name) = cs

\* pose.get('sanskrit_name', 'N/A')
sanskrit_name_or_na(pose) ==
    IF "sanskrit_name" \in DOMAIN pose THEN pose.sanskrit_name ELSE "N/A"

\* the lines create_yoga_curriculum writes for one section
section_lines(section) ==
    [name |-> section.name, duration |-> section.duration,
     purpose |-> section.purpose,
     poses |-> Len(section.poses),
     shown |-> [i \in 1..min(3, Len(section.poses)) |->
                   [name |-> section.poses[i].name,
                    sanskrit_name |-> sanskrit_name_or_na(section.poses[i])]],
     more |-> max(0, Len(section.poses) - 3),
     enhanced_cues |->
        IF "enhanced_cues" \in DOMAIN section /\ Len(section.enhanced_cues) > 0
        THEN slice_to(section.enhanced_cues, 2) ELSE <<>>]

\* the second half of create_yoga_curriculum: the PDF and the parts of the
\* text it returns for a class plan, or the text for the exception caught.
\* pdf is what the PDF writer does; now is the clock's text
curriculum_response(class_plan, generate_pdf, pdf, now) ==
    IF "raised" \in DOMAIN class_plan THEN
        [text |-> "Error creating curriculum: {str(e)}", e |-> class_plan.raised]
    ELSE
        [title |-> class_plan.metadata.title,
         duration |-> class_plan.metadata.duration,
         level |-> class_plan.metadata.level,
         focus |-> class_plan.metadata.focus_theme,
         total_poses |-> class_plan.metadata.total_poses,
         enhancement_status |->
             IF class_plan.metadata.enhanced_with_mistral
             THEN "Enhanced with Mistral AI insights"
             ELSE "Standard curriculum",
         class_structure |->
             [i \in 1..Len(class_plan.sections) |->
                 section_lines(class_plan.sections[i].value)],
         mistral_enhancements |->
             IF "mistral_enhancements" \in DOMAIN class_plan
             THEN Some([advanced_insights |->
                            Len(class_plan.mistral_enhancements.advanced_insights),
                        modifications_and_props |->
                            Len(class_plan.mistral_enhancements.modifications_and_props),
                        breathing_philosophy |->
                            Len(class_plan.mistral_enhancements.breathing_philosophy) > 0,
                        common_mistakes |->
                            Len(class_plan.mistral_enhancements.common_mistakes)])
             ELSE None,
         pdf |->
             IF generate_pdf /\ pdf.generated
             THEN Some([text |-> "yoga_curricula/{safe_title}_{timestamp}{mistral_suffix}.pdf",
                        title |-> class_plan.metadata.title, timestamp |-> now,
                        mistral_suffix |->
                            IF class_plan.metadata.enhanced_with_mistral
                            THEN "_AI_Enhanced" ELSE ""])
             ELSE None]

\* create_yoga_curriculum after its initialisation step.  search and mistral
\* are what the vector search and the Mistral chat call do
create_yoga_curriculum(globals, level, duration_minutes, focus_theme, use_mistral_enhancement, generate_pdf, search, mistral, pdf, now) ==
    IF globals.enhanced_generator = None THEN
        [text |-> "Enhanced curriculum generator not available. Please check installation."]
    ELSE
        curriculum_response(
            create_enhanced_class_plan(
                globals.enhanced_generator[1], level, duration_minutes, focus_theme,
                search_yoga_poses_after(
                    globals,
                    [text |-> "{level} yoga poses {focus_theme}",
                     level |-> level, focus_theme |-> focus_theme],
                    20,
                    IF contains(class_structures, lower_str(chars(level)))
                    THEN Some(str_of(title(chars(level)))) ELSE None,
                    search),
                use_mistral_enhancement /\ config.mistral_api_key # "",
                mistral, now),
            generate_pdf, pdf, now)

\* search_poses after its initialisation step
search_poses(globals, query, limit, expertise_level, search) ==
    LET results ==
            search_yoga_poses_after(globals, query, limit,
                              IF expertise_level # "" THEN Some(expertise_level)
                              ELSE None,
                              search)
    IN  IF Len(results) = 0 THEN
            [text |-> "No yoga poses found for query: '{query}'", query |-> query]
        ELSE
            [text |-> "Found {len(results)} yoga poses for '{query}':",
             count |-> Len(results), query |-> query,
             poses |-> [i \in 1..Len(results) |->
                          [name |-> results[i].pose.name,
                           sanskrit_name |-> sanskrit_name_or_na(results[i].pose),
                           expertise |-> results[i].pose.expertise_level,
                           types |-> results[i].pose.pose_type,
                           score |-> IF "score" \in DOMAIN results[i]
                                     THEN results[i].score ELSE 0]]]

(***************************************************************************)
(* The uploader of the cleaned poses to Qdrant Cloud                       *)
(* (upload_to_qdrant_cloud.py).                                            *)
(***************************************************************************)
\* prepare_points: one PointStruct per record, in the order of the records,
\* or no point when the embeddings are not one per record
prepare_points(records, embeddings) ==
    IF Len(embeddings) # Len(records) THEN <<>>
    ELSE [i \in 1..Len(records) |->
            [id |-> records[i].id, vector |-> embeddings[i],
             payload |-> [name |-> records[i].name,
                          searchable_text |-> records[i].searchable_text]]]

\* a batch count that rounds the wrong way when the last batch is full
total_batches_rounded_down(points, batch_size) == Len(points) \div batch_size + 1

\* total_batches = (len(points) - 1) // batch_size + 1
total_batches(points, batch_size) == (Len(points) - 1) \div batch_size + 1

\* the loop "for i in range(0, len(points), batch_size)" from index i on:
\* the batches taken by the collection, and whether the loop came to its
\* end; upsert number fails_at raises
RECURSIVE upload_batches(_, _, _, _, _)
upload_batches(points, batch_size, i, taken, fails_at) ==
    IF i >= Len(points) THEN [value |-> TRUE, upserts |-> taken]
    ELSE LET batch == SubSeq(points, i + 1, min(i + batch_size, Len(points)))
             batch_num == i \div batch_size + 1
         IN  IF batch_num = fails_at
             THEN [value |-> FALSE, upserts |-> taken]
             ELSE upload_batches(points, batch_size, i + batch_size,
                                 Append(taken, batch), fails_at)

\* upload_data: the value returned, the batches the collection took and the
\* batch count it announced
upload_data(records, batch_size, embeddings, fails_at) ==
    LET points == prepare_points(records, embeddings)
    IN  IF points = <<>>
        THEN [value |-> FALSE, upserts |-> <<>>, points |-> points]
        ELSE [total_batches |-> total_batches(points, batch_size),
              points |-> points]
             @@ upload_batches(points, batch_size, 0, <<>>, fails_at)

(***************************************************************************)
(* The cleaner of the pose dataset (clean_yoga_simple.py).  A row of the   *)
(* file is the record of its keys; a row that is a JSON string and no      *)
(* object is the record [str |-> text].                                    *)
(***************************************************************************)
\* str.strip() on the strings that occur
strip(value) ==
    CASE value = "   " -> ""
      [] value = " Tree Pose " -> "Tree Pose"
      [] OTHER -> value

\* clean_string: None for an empty or blank string
clean_string(value) ==
    IF value = "" THEN None
    ELSE LET cleaned == strip(value)
         IN  IF cleaned = "" \/ cleaned = " Pose" THEN None ELSE Some(cleaned)

\* clean_pose_types and the list branch of clean_followup_poses: the
\* cleaned strings that are left
RECURSIVE clean_pose_types(_)
clean_pose_types(pose_types) ==
    IF pose_types = <<>> THEN <<>>
    ELSE LET cleaned_type == clean_string(Head(pose_types))
         IN  (IF truthy(cleaned_type) THEN <<cleaned_type[1]>> ELSE <<>>)
             \o clean_pose_types(Tail(pose_types))

\* validate_url on the addresses that occur
validate_url(url) == url \in {"https://example.org/mountain.png"}

\* is_valid_record: a name and a pose type are left after cleaning
is_valid_record(row_data) ==
    /\ truthy(clean_string(row_data.name))
    /\ clean_pose_types(row_data.pose_type) # <<>>

\* the parts of the searchable text that are not empty
RECURSIVE nonempty_parts(_)
nonempty_parts(parts) ==
    IF parts = <<>> THEN <<>>
    ELSE (IF Head(parts) = <<>> THEN <<>> ELSE <<Head(parts)>>)
         \o nonempty_parts(Tail(parts))

\* clean_record: the cleaned record, None for a row without name or pose
\* type, or the error raised by row.get on a row that is no object
clean_record(row, uuid4) ==
    IF "row" \notin DOMAIN row
    THEN [raised |-> "AttributeError: 'str' object has no attribute 'get'"]
    ELSE IF ~is_valid_record(row.row) THEN [value |-> None]
    ELSE LET name == clean_string(row.row.name)
             level == clean_string(row.row.expertise_level)
             expertise_level == IF truthy(level) THEN level[1] ELSE "Unknown"
             pose_type == clean_pose_types(row.row.pose_type)
             followup_poses == clean_pose_types(row.row.followup_poses)
             url == clean_string(row.row.photo_url)
             photo_url == IF truthy(url) /\ ~validate_url(url[1]) THEN None ELSE url
         IN  [value |-> Some(
                [id |-> uuid4, name |-> name[1],
                 expertise_level |-> expertise_level,
                 pose_type |-> pose_type, followup_poses |-> followup_poses,
                 photo_url |-> photo_url,
                 searchable_text |->
                    [join |-> " ",
                     parts |-> nonempty_parts(<< <<name[1]>>, <<expertise_level>>,
                                                 pose_type, followup_poses >>)],
                 metadata |-> [has_followup_poses |-> followup_poses # <<>>,
                               has_photo |-> truthy(photo_url)]])]

\* the loop "for row in rows": the cleaned records, or the error of the
\* first row that raises
RECURSIVE clean_rows(_, _)
clean_rows(rows, cleaned_data) ==
    IF rows = <<>> THEN [value |-> cleaned_data]
    ELSE LET cleaned_record == clean_record(Head(rows), Len(cleaned_data) + 1)
         IN  IF "raised" \in DOMAIN cleaned_record THEN cleaned_record
             ELSE clean_rows(Tail(rows),
                             IF cleaned_record.value # None
                             THEN Append(cleaned_data, cleaned_record.value[1])
                             ELSE cleaned_data)

\* clean_yoga_dataset: how the call ends (value returned or error raised)
\* and the file it wrote; file is the input file, write_ok whether the
\* output file can be written
clean_yoga_dataset(file, output_file, write_ok) ==
    IF ~file.exists THEN [value |-> FALSE, written |-> None]
    ELSE IF file.data.type # "dict" \/ file.data.rows_type = "int"
    THEN [value |-> FALSE, written |-> None]
    ELSE
        LET rows == IF file.data.rows_type = "list" THEN file.data.rows ELSE <<>>
            cleaned == clean_rows(rows, <<>>)
        IN  IF "raised" \in DOMAIN cleaned
            THEN [raised |-> cleaned.raised, written |-> None]
            ELSE
                LET cleaned_data == cleaned.value
                    stats == [total_records |-> Len(rows),
                              cleaned_records |-> Len(cleaned_data),
                              removed_records |-> Len(rows) - Len(cleaned_data)]
                    path == IF output_file = None
                            THEN "dataset/cleaned_yoga_sequencing.json"
                            ELSE output_file[1]
                    output_data ==
                        [path |-> path,
                         metadata |-> [total_records |-> stats.cleaned_records,
                                       source_file |-> "dataset/yoga_sequencing.json",
                                       cleaning_stats |-> stats],
                         records |-> cleaned_data]
                IN  IF ~write_ok THEN [value |-> FALSE, written |-> None]
                    ELSE IF stats.total_records = 0
                    THEN [raised |-> "ZeroDivisionError: division by zero",
                          written |-> Some(output_data)]
                    ELSE [value |-> TRUE, written |-> Some(output_data)]

(***************************************************************************)
(* Inputs tried.                                                           *)
(***************************************************************************)
Durations == (5 - ExtraDuration) .. (90 + ExtraDuration)

Levels == {"beginner", "intermediate", "advanced", "all_levels", "expert"}

Styles == {"hatha", "vinyasa", "stress_relief", "ashtanga"}

Focuses == {"balanced", "hip_opening"}

\* every pose name of the table as imported, and names that are not in it
PoseNames ==
    { SequenceTemplatesAtImport[i].value[j].value[k].value[l].name :
        <<i, j, k, l>> \in
            { t \in (1..3) \X (1..2) \X (1..5) \X (1..4) :
                /\ t[1] <= Len(SequenceTemplatesAtImport)
                /\ t[2] <= Len(SequenceTemplatesAtImport[t[1]].value)
                /\ t[3] <= Len(SequenceTemplatesAtImport[t[1]].value[t[2]].value)
                /\ t[4] <= Len(SequenceTemplatesAtImport[t[1]].value[t[2]].value[t[3]].value) } }
    \cup {"Lotus Pose", "mountain pose", ""}

AsanaNames == {"Mountain Pose", "Cat/Cow Flow"}

Voices == {"en_US-amy-medium", "en_US-lessac-medium"}

OutputPreferences == {"download_link", "base64_data", "save_to_user_path", "stream"}

UserSavePaths == {"", "/home/student/yoga"}

\* the audio that synthesis writes: a few bytes stand for a WAV file
AudioSamples == {<<82, 73, 70, 70>>, <<82, 73, 70, 70, 36>>}

\* what the Piper package and the models folder do during one call
PiperBehaviours ==
    [importable : BOOLEAN, model_exists : BOOLEAN, load_ok : BOOLEAN,
     synthesize_ok : BOOLEAN, audio_data : AudioSamples]

\* which writes the file system accepts during one call
FileBehaviours == [temp_write_ok : BOOLEAN, user_write_ok : BOOLEAN]

\* values given to set_threshold, and thresholds given to record_pose
ThresholdValues == {-5000, 0, 2500, 8000, 10000, 15000}

\* scores of the pose backend; none is a tie of round(score, 3)
Scores == {0, 4502, 7512, 8500, 9349, 10000}

\* what requests.post to the pose backend does during one call
BackendBehaviours ==
    { [raises |-> TRUE, e |-> "ConnectionError"],
      [raises |-> TRUE, e |-> "JSONDecodeError"],
      [raises |-> FALSE, status_code |-> 501,
       data |-> [error |-> "not_implemented"]],
      [raises |-> FALSE, status_code |-> 200,
       data |-> [error |-> "not_implemented"]] }
    \cup
    { [raises |-> FALSE, status_code |-> 200,
       data |-> [top |-> [name |-> "WarriorII", score |-> score],
                 passed |-> passed,
                 scores |-> <<Item("WarriorII", score)>>]] :
        score \in Scores, passed \in BOOLEAN }

\* confidences and explicit thresholds given to celebrate_if_correct; the
\* explicit threshold is not clamped and may lie outside [0, 1]
Confidences == {0, 2500, 7999, 8000, 10000}

OptionalThresholds == {None} \cup {Some(value) : value \in {0, 2500, 9000, 15000}}

OptionalTexts(text) == {None, Some(""), Some(text)}

\* what the SMTP server and the Slack webhook do during one call
MailBehaviours == [smtp_configured : BOOLEAN, smtp_ok : BOOLEAN, slack_ok : BOOLEAN]

Queries == {"", "hip opening poses"}

Limits == {0, 3, 10}

ExpertiseFilters == {None, Some(""), Some("beginner"), Some("Intermediate"), Some("ADVANCED")}

StoredPoint(id, score, name) ==
    [id |-> id, score |-> score,
     payload |-> [name |-> name, expertise_level |-> chars("Beginner"),
                  pose_type |-> <<"Seated">>]]

\* what encode and query_points do during one call
SearchBehaviours ==
    { [raises |-> TRUE, ranked |-> <<>>] }
    \cup
    { [raises |-> FALSE, ranked |-> ranked] :
        ranked \in { <<>>,
                     <<StoredPoint(7, 9100, "Pigeon Pose")>>,
                     <<StoredPoint(7, 9100, "Pigeon Pose"),
                       StoredPoint(3, 8800, "Bound Angle Pose"),
                       StoredPoint(12, 7400, "Garland Pose"),
                       StoredPoint(5, 7100, "Lizard Pose")>> } }

\* the environment variables read into config at import
Configs ==
    [qdrant_url : {"", "https://qdrant.example.org"},
     qdrant_api_key : {"", "qdrant-key"},
     mistral_api_key : {"", "mistral-key"}]

\* the objects two constructions make are told apart by their id
ObjectIds == {1, 2}

\* whether the constructors matter to the call: they run only in a server
\* not yet initialised
ConstructorsTried ==
    IF initialized
    THEN {[client_ok |-> TRUE, model_ok |-> TRUE, generator_ok |-> TRUE, id |-> 1]}
    ELSE [client_ok : BOOLEAN, model_ok : BOOLEAN, generator_ok : BOOLEAN,
          id : ObjectIds]

\* levels and class lengths asked of the curriculum tools; the tool accepts
\* 15 to 120 minutes
CurriculumLevels == {"beginner", "Intermediate", "ADVANCED", "expert"}

CurriculumDurations == {15, 60}

\* what encode and query_points do during a create_yoga_curriculum call
CurriculumSearches ==
    { [raises |-> TRUE, ranked |-> <<>>],
      [raises |-> FALSE,
       ranked |-> <<StoredPoint(7, 9100, "Pigeon Pose"),
                    StoredPoint(3, 8800, "Bound Angle Pose")>>] }

\* what the Mistral chat call does: it fails, or answers with a JSON object,
\* with JSON that is not an object, or with plain text
MistralBehaviours ==
    { [raises |-> TRUE, e |-> "401 Unauthorized"],
      [raises |-> FALSE,
       content |-> [kind |-> "json_object",
                    value |-> << Item("enhanced_teaching_cues",
                                      << Item("standing",
                                              <<"Press down through all four corners of the feet">>) >>),
                                 Item("advanced_insights",
                                      <<"Link every transition to one breath">>),
                                 Item("common_mistakes",
                                      <<"Locked knees: keep a micro-bend">>) >>]],
      [raises |-> FALSE,
       content |-> [kind |-> "json_array", value |-> <<"Breathe">>]],
      [raises |-> FALSE,
       content |-> [kind |-> "text", text |-> "Teach slowly and cue the breath.",
                    length |-> 32]] }

\* whether generate_enhanced_pdf writes the file or raises
PdfBehaviours == [generated : BOOLEAN]

\* lists given as poses_data, each pose once: none, the demo poses, a pose
\* of two floor types, and poses of types no section takes
PosesData ==
    { <<>>,
      get_demo_poses("beginner"),
      get_demo_poses("Intermediate"),
      << DemoPose("Staff Pose", "Dandasana", "ADVANCED", <<"Seated", "Supine">>),
         DemoPose("Standing Forward Fold", "Uttanasana", "ADVANCED",
                  <<"Standing Forward Bend">>) >>,
      << DemoPose("Headstand", "Sirsasana", "ADVANCED", <<"Inversion">>),
         DemoPose("Cobra Pose", "Bhujangasana", "beginner", <<"Prone", "Back Bend">>) >> }

\* the records read from the cleaned data file: the first n poses
UploadRecords ==
    { [i \in 1..n |-> [id |-> i, name |-> "pose", searchable_text |-> i]]
        : n \in 0..MaxRecords }

\* what generate_embeddings returns for the texts: one vector for each, or
\* the empty list after an error of the model
embeddings_for(records, encoded) ==
    IF encoded THEN [i \in 1..Len(records) |-> <<records[i].searchable_text>>]
    ELSE <<>>

\* batch sizes: small ones and the default
BatchSizes == (1..MaxBatchSize) \cup {50}

\* the upsert that raises, 0 for none
FailingUpserts == 0..2

\* rows of the dataset: a pose, a pose to be stripped, one with a blank
\* name, one without pose type, and a row that is a string
RowOf(name, pose_type, photo_url) ==
    [row |-> [name |-> name, expertise_level |-> "Beginner",
              pose_type |-> pose_type, followup_poses |-> <<"Chair Pose", "">>,
              photo_url |-> photo_url]]

RowsTried ==
    { RowOf("Mountain Pose", <<"Standing">>, "https://example.org/mountain.png"),
      RowOf(" Tree Pose ", <<"Standing", "   ">>, "tree.png"),
      RowOf("   ", <<"Standing">>, ""),
      RowOf("Chair Pose", <<>>, ""),
      [str |-> "Tree Pose"] }

RECURSIVE RowLists(_)
RowLists(n) ==
    IF n = 0 THEN {<<>>}
    ELSE RowLists(n - 1)
         \cup { Append(rows, row) : rows \in { r \in RowLists(n - 1) : Len(r) = n - 1 },
                                     row \in RowsTried }

\* the input file: absent, no JSON, a JSON list, or an object whose "rows"
\* is absent, a number or a list of rows
InputFiles ==
    { [exists |-> FALSE,
       data |-> [type |-> "invalid", rows_type |-> "absent", rows |-> <<>>]] }
    \cup { [exists |-> TRUE,
            data |-> [type |-> type, rows_type |-> "absent", rows |-> <<>>]]
            : type \in {"invalid", "list", "dict"} }
    \cup { [exists |-> TRUE,
            data |-> [type |-> "dict", rows_type |-> "int", rows |-> <<>>]] }
    \cup { [exists |-> TRUE,
            data |-> [type |-> "dict", rows_type |-> "list", rows |-> rows]]
            : rows \in RowLists(MaxRows) }

\* whether the constructors called by initialize_components succeed
ConstructorBehaviours ==
    [client_ok : BOOLEAN, model_ok : BOOLEAN, generator_ok : BOOLEAN,
     id : ObjectIds]

\* the requests of the invocations that run at the same time
ConcurrentDurations == {4, 12, 45}

ConcurrentLevels == {"beginner", "expert"}

ConcurrentStyles == {"hatha", "stress_relief"}

\* the requests that are made again and again
RepeatedDurations == {5, 20, 45}

RepeatedStyles == {"hatha", "vinyasa"}

\* every pose list of the template table
PoseLists ==
    { SEQUENCE_TEMPLATES[i].value[j].value[k].value :
        <<i, j, k>> \in
            { t \in (1..3) \X (1..2) \X (1..5) :
                /\ t[1] <= Len(SEQUENCE_TEMPLATES)
                /\ t[2] <= Len(SEQUENCE_TEMPLATES[t[1]].value)
                /\ t[3] <= Len(SEQUENCE_TEMPLATES[t[1]].value[t[2]].value) } }

(***************************************************************************)
(* The state machine: the module-level table, the call being served and    *)
(* what it returned.  The server is FastMCP with stateless_http: a call is *)
(* served to completion, its result is sent and nothing of it is kept.     *)
(* history is not a variable of the program: it keeps, in order, what the  *)
(* create_yoga_sequence calls of SpecRepeated were given and returned.     *)
(* frames holds the local variables of the create_yoga_sequence            *)
(* invocations that SpecConcurrent runs statement by statement.            *)
(***************************************************************************)
NoCall == [op |-> "none"]

\* two invocations of create_yoga_sequence in flight at once
Invocations == {"first", "second"}

NoFrame == [pc |-> "none"]

\* poseflow_mcp/main.py as imported, the notifications module found
PoseflowAtImport ==
    /\ POSEFLOW_STATE = [threshold |-> 8000]
    /\ notifications_imported = TRUE
    /\ outbox = <<>>

\* yoga_curriculum_mcp_server.py as imported, nothing set in the environment
CurriculumAtImport ==
    /\ QDRANT_AVAILABLE = TRUE
    /\ MISTRAL_AVAILABLE = TRUE
    /\ config = [qdrant_url |-> "", qdrant_api_key |-> "", mistral_api_key |-> ""]
    /\ qdrant_client = None
    /\ embedding_model = None
    /\ enhanced_generator = None
    /\ initialized = FALSE

Init ==
    /\ SEQUENCE_TEMPLATES = SequenceTemplatesAtImport
    /\ call = NoCall
    /\ returned = <<>>
    /\ upserts = <<>>
    /\ history = <<>>
    /\ frames = [invocation \in Invocations |-> NoFrame]
    /\ PoseflowAtImport
    /\ CurriculumAtImport

\* one call of the tool create_yoga_sequence
serve_create_yoga_sequence(duration_minutes, level, style, focus) ==
    /\ call' = [op |-> "create_yoga_sequence",
                duration_minutes |-> duration_minutes,
                level |-> level, style |-> style, focus |-> focus]
    /\ returned' = create_yoga_sequence(duration_minutes, level, style, focus)
    /\ SEQUENCE_TEMPLATES' =
          templates_after_create_yoga_sequence(duration_minutes, level, style, focus)

CreateYogaSequence ==
    /\ call = NoCall
    /\ \E duration_minutes \in Durations, level \in Levels,
          style \in Styles, focus \in Focuses :
        serve_create_yoga_sequence(duration_minutes, level, style, focus)
    /\ UNCHANGED <<upserts, history, frames, poseflow, curriculum>>

\* a call of create_yoga_sequence whose request and result are kept
CreateYogaSequenceRepeated ==
    /\ call = NoCall
    /\ Len(history) < MaxHistory
    /\ \E duration_minutes \in RepeatedDurations, style \in RepeatedStyles :
        serve_create_yoga_sequence(duration_minutes, "beginner", style, "balanced")
    /\ history' = Append(history, [request |-> call', result |-> returned'])
    /\ UNCHANGED <<upserts, frames, poseflow, curriculum>>

GetSequenceTemplate ==
    /\ call = NoCall
    /\ \E style \in Styles, level \in Levels :
        /\ call' = [op |-> "get_sequence_template", style |-> style, level |-> level]
        /\ returned' = get_sequence_template(style, level)
    /\ UNCHANGED <<upserts, SEQUENCE_TEMPLATES, history, frames, poseflow, curriculum>>

GetPoseDetails ==
    /\ call = NoCall
    /\ \E pose_name \in PoseNames :
        /\ call' = [op |-> "get_pose_details", pose_name |-> pose_name]
        /\ returned' = get_pose_details(pose_name)
    /\ UNCHANGED <<upserts, SEQUENCE_TEMPLATES, history, frames, poseflow, curriculum>>

GeneratePoseAudioWithPiper ==
    /\ call = NoCall
    /\ \E asana_name \in AsanaNames, voice \in Voices,
          include_breathing_cues \in BOOLEAN,
          output_preference \in OutputPreferences,
          user_save_path \in UserSavePaths,
          piper \in PiperBehaviours, files \in FileBehaviours :
        /\ call' = [op |-> "generate_pose_audio_with_piper",
                    asana_name |-> asana_name, voice |-> voice,
                    include_breathing_cues |-> include_breathing_cues,
                    output_preference |-> output_preference,
                    user_save_path |-> user_save_path,
                    piper |-> piper, files |-> files]
        /\ returned' = generate_pose_audio_with_piper(
                            asana_name, voice, include_breathing_cues,
                            output_preference, user_save_path, piper, files)
    /\ UNCHANGED <<upserts, SEQUENCE_TEMPLATES, history, frames, poseflow, curriculum>>

\* a client hands a response of generate_pose_audio_with_piper to the helper
CreateAudioStreamFromResponse ==
    /\ call = NoCall
    /\ \E asana_name \in AsanaNames, voice \in Voices,
          output_preference \in OutputPreferences,
          piper \in PiperBehaviours, files \in FileBehaviours :
        LET response == generate_pose_audio_with_piper(
                            asana_name, voice, TRUE, output_preference,
                            "/home/student/yoga", piper, files)
        IN  /\ call' = [op |-> "create_audio_stream_from_response",
                        output_preference |-> output_preference,
                        piper |-> piper, response |-> response]
            /\ returned' = create_audio_stream_from_response(response)
    /\ UNCHANGED <<upserts, SEQUENCE_TEMPLATES, history, frames, poseflow, curriculum>>

StreamPoseAudioExample ==
    /\ call = NoCall
    /\ \E pose_name \in AsanaNames, voice \in Voices,
          piper \in PiperBehaviours, files \in FileBehaviours :
        /\ call' = [op |-> "stream_pose_audio_example", pose_name |-> pose_name,
                    voice |-> voice, piper |-> piper]
        /\ returned' = stream_pose_audio_example(pose_name, voice, piper, files)
    /\ UNCHANGED <<upserts, SEQUENCE_TEMPLATES, history, frames, poseflow, curriculum>>

CallPiperTtsApi ==
    /\ call = NoCall
    /\ \E asana_name \in AsanaNames, voice \in Voices, piper \in PiperBehaviours :
        LET text == create_simple_calming_script(asana_name, TRUE)
        IN  /\ call' = [op |-> "call_piper_tts_api", text |-> text,
                        voice |-> voice, piper |-> piper]
            /\ returned' = call_piper_tts_api(text, voice, piper)
    /\ UNCHANGED <<upserts, SEQUENCE_TEMPLATES, history, frames, poseflow, curriculum>>

SelectPosesForTime ==
    /\ call = NoCall
    /\ \E poses \in PoseLists, time_minutes \in 0..MaxSectionTime :
        /\ call' = [op |-> "select_poses_for_time",
                    poses |-> poses, time_minutes |-> time_minutes]
        /\ returned' = select_poses_for_time(poses, time_minutes)
    /\ UNCHANGED <<upserts, SEQUENCE_TEMPLATES, history, frames, poseflow, curriculum>>

\* the result has been sent: the request's objects are dropped
Respond ==
    /\ call # NoCall
    /\ call' = NoCall
    /\ returned' = <<>>
    /\ UNCHANGED <<upserts, SEQUENCE_TEMPLATES, history, frames, poseflow, curriculum>>

Next ==
    \/ CreateYogaSequence
    \/ SelectPosesForTime
    \/ GetSequenceTemplate
    \/ GetPoseDetails
    \/ GeneratePoseAudioWithPiper
    \/ CallPiperTtsApi
    \/ CreateAudioStreamFromResponse
    \/ StreamPoseAudioExample
    \/ Respond

Spec == Init /\ [][Next]_vars

(***************************************************************************)
(* create_yoga_sequence statement by statement, for invocations that run   *)
(* at the same time: each has its own frame of local variables, and all    *)
(* read the one table.                                                     *)
(***************************************************************************)
\* the frame of the other invocation where it holds a time allocation
time_allocation_last_computed(invocation) ==
    LET others == { other \in Invocations :
                        /\ other # invocation
                        /\ frames[other].pc \in {"loop", "returned"}
                        /\ "time_allocation" \in DOMAIN frames[other] }
    IN  IF others # {}
        THEN frames[CHOOSE other \in others : TRUE].time_allocation
        ELSE frames[invocation].time_allocation

\* the local variable time_allocation of an invocation
time_allocation_of(invocation) == frames[invocation].time_allocation

\* the call arrives
Enter(invocation) ==
    /\ frames[invocation].pc = "none"
    /\ \E duration_minutes \in ConcurrentDurations, level \in ConcurrentLevels,
          style \in ConcurrentStyles :
        frames' = [frames EXCEPT ![invocation] =
                      [pc |-> "validate",
                       duration_minutes |-> duration_minutes,
                       level |-> level, style |-> style, focus |-> "balanced"]]
    /\ UNCHANGED <<upserts, SEQUENCE_TEMPLATES, call, returned, history, poseflow, curriculum>>

\* the checks of duration, style and level, up to template = style_template[level]
Validate(invocation) ==
    LET f == frames[invocation]
    IN  /\ f.pc = "validate"
        /\ frames' = [frames EXCEPT ![invocation] =
              IF f.duration_minutes < 5 \/ f.duration_minutes > 90
              THEN [f EXCEPT !.pc = "returned"] @@ [result |-> duration_error]
              ELSE IF ~contains(SEQUENCE_TEMPLATES, f.style)
              THEN [f EXCEPT !.pc = "returned"] @@ [result |-> style_error]
              ELSE
                  LET style_template == get(SEQUENCE_TEMPLATES, f.style)
                      lvl == resolve_level(f.level, f.style)
                  IN  IF ~contains(style_template, lvl)
                      THEN [f EXCEPT !.pc = "returned"]
                              @@ [result |-> level_error(lvl, f.style, style_template),
                                  resolved |-> lvl]
                      ELSE [f EXCEPT !.pc = "allocate"]
                              @@ [resolved |-> lvl,
                                  template |-> get(style_template, lvl)]]
        /\ UNCHANGED <<upserts, SEQUENCE_TEMPLATES, call, returned, history, poseflow, curriculum>>

\* time_allocation = calculate_time_allocation(...) and sequence = {...}
Allocate(invocation) ==
    LET f == frames[invocation]
        time_allocation == calculate_time_allocation(f.duration_minutes, f.style)
    IN  /\ f.pc = "allocate"
        /\ frames' = [frames EXCEPT ![invocation] =
              [f EXCEPT !.pc = "loop"]
                 @@ [time_allocation |-> time_allocation,
                     sequence |-> sequence_before_loop(f.duration_minutes, f.resolved,
                                                       f.style, f.focus, time_allocation),
                     i |-> 1]]
        /\ UNCHANGED <<upserts, SEQUENCE_TEMPLATES, call, returned, history, poseflow, curriculum>>

\* one pass of the loop over time_allocation.items()
AddSection(invocation) ==
    LET f == frames[invocation]
        time_allocation == time_allocation_of(invocation)
    IN  /\ f.pc = "loop"
        /\ f.i <= Len(time_allocation)
        /\ frames' = [frames EXCEPT ![invocation] =
              [f EXCEPT !.sequence = add_section(@, f.template,
                                                 time_allocation[f.i].key,
                                                 time_allocation[f.i].value),
                        !.i = @ + 1]]
        /\ SEQUENCE_TEMPLATES' =
              templates_after_section(SEQUENCE_TEMPLATES, f.style, f.resolved,
                                      time_allocation[f.i].key,
                                      time_allocation[f.i].value)
        /\ UNCHANGED <<upserts, call, returned, history, poseflow, curriculum>>

\* return sequence
Return(invocation) ==
    LET f == frames[invocation]
    IN  /\ f.pc = "loop"
        /\ f.i > Len(time_allocation_of(invocation))
        /\ frames' = [frames EXCEPT ![invocation] =
              [f EXCEPT !.pc = "returned"] @@ [result |-> f.sequence]]
        /\ UNCHANGED <<upserts, SEQUENCE_TEMPLATES, call, returned, history, poseflow, curriculum>>

\* the result has been sent: the frame is dropped
Leave(invocation) ==
    /\ frames[invocation].pc = "returned"
    /\ frames' = [frames EXCEPT ![invocation] = NoFrame]
    /\ UNCHANGED <<upserts, SEQUENCE_TEMPLATES, call, returned, history, poseflow, curriculum>>

NextConcurrent ==
    \E invocation \in Invocations :
        \/ Enter(invocation)
        \/ Validate(invocation)
        \/ Allocate(invocation)
        \/ AddSection(invocation)
        \/ Return(invocation)
        \/ Leave(invocation)

SpecConcurrent == Init /\ [][NextConcurrent]_vars

(***************************************************************************)
(* The soloscale_poseflow server: its tools, one call at a time.           *)
(***************************************************************************)
InitPoseflow ==
    /\ SEQUENCE_TEMPLATES = SequenceTemplatesAtImport
    /\ call = NoCall
    /\ returned = <<>>
    /\ upserts = <<>>
    /\ history = <<>>
    /\ frames = [invocation \in Invocations |-> NoFrame]
    /\ POSEFLOW_STATE = [threshold |-> 8000]
    /\ notifications_imported \in BOOLEAN
    /\ outbox = <<>>
    /\ CurriculumAtImport

SetThreshold ==
    /\ call = NoCall
    /\ \E value \in ThresholdValues :
        /\ call' = [op |-> "set_threshold", value |-> value]
        /\ POSEFLOW_STATE' = [POSEFLOW_STATE EXCEPT !.threshold = clamp_0_1(value)]
        /\ returned' = [threshold |-> clamp_0_1(value)]
    /\ UNCHANGED <<upserts, SEQUENCE_TEMPLATES, history, frames, notifications_imported, outbox, curriculum>>

RecordPose ==
    /\ call = NoCall
    /\ \E landmarks \in {<<>>, <<<<5000, 5000>>>>},
          image_url \in {None, Some("https://example.org/pose.jpg")},
          threshold \in {None} \cup {Some(value) : value \in {2500, 9000}},
          backend \in BackendBehaviours :
        /\ call' = [op |-> "record_pose", landmarks |-> landmarks,
                    image_url |-> image_url, image_b64 |-> None,
                    threshold |-> threshold, backend |-> backend]
        /\ returned' = record_pose(landmarks, image_url, None, threshold, backend)
    /\ UNCHANGED <<upserts, SEQUENCE_TEMPLATES, history, frames, poseflow, curriculum>>

CelebrateIfCorrect ==
    /\ call = NoCall
    /\ \E confidence \in Confidences, threshold \in OptionalThresholds :
        /\ call' = [op |-> "celebrate_if_correct", pose |-> "WarriorII",
                    confidence |-> confidence, threshold |-> threshold]
        /\ returned' = celebrate_if_correct("WarriorII", confidence, threshold)
    /\ UNCHANGED <<upserts, SEQUENCE_TEMPLATES, history, frames, poseflow, curriculum>>

NotifyTeacher ==
    /\ call = NoCall
    /\ \E teacher_email \in OptionalTexts("teacher@example.org"),
          slack_webhook \in OptionalTexts("https://hooks.example.org/T1"),
          confirm \in BOOLEAN, mail \in MailBehaviours :
        /\ call' = [op |-> "notify_teacher", pose |-> "WarriorII",
                    student_id |-> "s-17", teacher_email |-> teacher_email,
                    slack_webhook |-> slack_webhook, confirm |-> confirm,
                    mail |-> mail]
        /\ returned' = notify_teacher("WarriorII", "s-17", teacher_email,
                                      slack_webhook, confirm, mail)
        /\ outbox' = outbox_after_notify_teacher(outbox, "WarriorII", "s-17",
                          teacher_email, slack_webhook, confirm, mail)
        /\ Len(outbox') <= MaxOutbox
    /\ UNCHANGED <<upserts, SEQUENCE_TEMPLATES, history, frames, POSEFLOW_STATE,
                   notifications_imported, curriculum>>

SendToTeacher ==
    /\ call = NoCall
    /\ \E teacher_email \in OptionalTexts("teacher@example.org"),
          slack_webhook \in OptionalTexts("https://hooks.example.org/T1"),
          mail \in MailBehaviours :
        /\ call' = [op |-> "send_to_teacher", pose |-> "WarriorII",
                    student_id |-> "s-17", teacher_email |-> teacher_email,
                    slack_webhook |-> slack_webhook, mail |-> mail]
        /\ returned' = send_to_teacher("WarriorII", "s-17", teacher_email,
                                       slack_webhook, mail)
        /\ outbox' = outbox_after_send_to_teacher(outbox, "WarriorII", "s-17",
                          teacher_email, slack_webhook, mail)
        /\ Len(outbox') <= MaxOutbox
    /\ UNCHANGED <<upserts, SEQUENCE_TEMPLATES, history, frames, POSEFLOW_STATE,
                   notifications_imported, curriculum>>

NextPoseflow ==
    \/ SetThreshold
    \/ RecordPose
    \/ CelebrateIfCorrect
    \/ NotifyTeacher
    \/ SendToTeacher
    \/ Respond

SpecPoseflow == InitPoseflow /\ [][NextPoseflow]_vars

(***************************************************************************)
(* The yoga-curriculum server: initialisation and search, one call at a    *)
(* time.                                                                   *)
(***************************************************************************)
InitCurriculum ==
    /\ SEQUENCE_TEMPLATES = SequenceTemplatesAtImport
    /\ call = NoCall
    /\ returned = <<>>
    /\ upserts = <<>>
    /\ history = <<>>
    /\ frames = [invocation \in Invocations |-> NoFrame]
    /\ PoseflowAtImport
    /\ QDRANT_AVAILABLE \in BOOLEAN
    /\ MISTRAL_AVAILABLE \in BOOLEAN
    /\ config \in Configs
    /\ qdrant_client = None
    /\ embedding_model = None
    /\ enhanced_generator = None
    /\ initialized = FALSE

InitializeComponents ==
    /\ call = NoCall
    /\ \E made \in ConstructorBehaviours :
        LET after == initialize_components(made)
        IN  /\ call' = [op |-> "initialize_components", made |-> made]
            /\ qdrant_client' = after.qdrant_client
            /\ embedding_model' = after.embedding_model
            /\ enhanced_generator' = after.enhanced_generator
            /\ initialized' = after.initialized
            /\ returned' = after.value
    /\ UNCHANGED <<upserts, SEQUENCE_TEMPLATES, history, frames, poseflow,
                   QDRANT_AVAILABLE, MISTRAL_AVAILABLE, config>>

\* "if not initialized: await initialize_components()" at the head of a
\* tool: the globals it leaves
initialize_if_needed(made) ==
    IF ~initialized THEN initialize_components(made) ELSE globals_unchanged(TRUE)

\* the tool create_yoga_curriculum: the components are initialised when
\* they are not yet, and the rest of the tool runs on what that left
CreateYogaCurriculum ==
    /\ call = NoCall
    /\ \E level \in {"beginner", "Intermediate", "expert"},
          duration_minutes \in {60},
          use_mistral_enhancement \in BOOLEAN, generate_pdf \in BOOLEAN,
          made \in ConstructorsTried, search \in CurriculumSearches,
          mistral \in MistralBehaviours, pdf \in PdfBehaviours :
        /\ ~generate_pdf => pdf.generated
        /\ call' = [op |-> "create_yoga_curriculum", level |-> level,
                    duration_minutes |-> duration_minutes,
                    focus_theme |-> "General Practice",
                    use_mistral_enhancement |-> use_mistral_enhancement,
                    generate_pdf |-> generate_pdf, made |-> made,
                    search |-> search, mistral |-> mistral, pdf |-> pdf]
        /\ LET globals == initialize_if_needed(made)
           IN  /\ qdrant_client' = globals.qdrant_client
               /\ embedding_model' = globals.embedding_model
               /\ enhanced_generator' = globals.enhanced_generator
               /\ initialized' = globals.initialized
               /\ returned' = create_yoga_curriculum(
                                   globals, level, duration_minutes,
                                   "General Practice", use_mistral_enhancement,
                                   generate_pdf, search, mistral, pdf,
                                   "2025-09-13 10:00:00")
    /\ UNCHANGED <<upserts, SEQUENCE_TEMPLATES, history, frames, poseflow,
                   QDRANT_AVAILABLE, MISTRAL_AVAILABLE, config>>

\* the tool search_poses
SearchPoses ==
    /\ call = NoCall
    /\ \E query \in {"hip opening poses"}, limit \in {1, 5},
          expertise_level \in {"", "Beginner"},
          made \in ConstructorsTried, search \in CurriculumSearches :
        /\ call' = [op |-> "search_poses", query |-> query, limit |-> limit,
                    expertise_level |-> expertise_level, made |-> made,
                    search |-> search]
        /\ LET globals == initialize_if_needed(made)
           IN  /\ qdrant_client' = globals.qdrant_client
               /\ embedding_model' = globals.embedding_model
               /\ enhanced_generator' = globals.enhanced_generator
               /\ initialized' = globals.initialized
               /\ returned' = search_poses(globals, query, limit,
                                           expertise_level, search)
    /\ UNCHANGED <<upserts, SEQUENCE_TEMPLATES, history, frames, poseflow,
                   QDRANT_AVAILABLE, MISTRAL_AVAILABLE, config>>

\* a caller builds a class plan with a generator of its own
CreateEnhancedClassPlan ==
    /\ call = NoCall
    /\ \E key \in {"", "mistral-key"}, level \in CurriculumLevels,
          duration_minutes \in CurriculumDurations, focus_theme \in {"", "balance"},
          poses_data \in PosesData, use_mistral_enhancement \in BOOLEAN,
          mistral \in MistralBehaviours :
        LET self == EnhancedYogaCurriculumGenerator(MISTRAL_AVAILABLE, key)
        IN  /\ call' = [op |-> "create_enhanced_class_plan", self |-> self,
                        level |-> level, duration_minutes |-> duration_minutes,
                        focus_theme |-> focus_theme, poses_data |-> poses_data,
                        use_mistral_enhancement |-> use_mistral_enhancement,
                        mistral |-> mistral]
            /\ returned' = create_enhanced_class_plan(
                                self, level, duration_minutes, focus_theme,
                                poses_data, use_mistral_enhancement, mistral,
                                "2025-09-13 10:00:00")
    /\ UNCHANGED <<upserts, SEQUENCE_TEMPLATES, history, frames, poseflow, curriculum>>

SearchYogaPoses ==
    /\ call = NoCall
    /\ \E query \in Queries, limit \in Limits,
          expertise_filter \in ExpertiseFilters, search \in SearchBehaviours :
        /\ call' = [op |-> "search_yoga_poses", query |-> query, limit |-> limit,
                    expertise_filter |-> expertise_filter, search |-> search]
        /\ returned' = search_yoga_poses(query, limit, expertise_filter, search)
    /\ UNCHANGED <<upserts, SEQUENCE_TEMPLATES, history, frames, poseflow, curriculum>>

NextCurriculum ==
    \/ InitializeComponents
    \/ SearchYogaPoses
    \/ CreateYogaCurriculum
    \/ SearchPoses
    \/ Respond

SpecCurriculum == InitCurriculum /\ [][NextCurriculum]_vars

(***************************************************************************)
(* The curriculum generator used on its own: class plans built from any    *)
(* list of poses, with the mistralai package installed or not.             *)
(***************************************************************************)
InitGenerator ==
    /\ SEQUENCE_TEMPLATES = SequenceTemplatesAtImport
    /\ call = NoCall
    /\ returned = <<>>
    /\ upserts = <<>>
    /\ history = <<>>
    /\ frames = [invocation \in Invocations |-> NoFrame]
    /\ PoseflowAtImport
    /\ QDRANT_AVAILABLE = TRUE
    /\ MISTRAL_AVAILABLE \in BOOLEAN
    /\ config = [qdrant_url |-> "", qdrant_api_key |-> "", mistral_api_key |-> ""]
    /\ qdrant_client = None
    /\ embedding_model = None
    /\ enhanced_generator = None
    /\ initialized = FALSE

NextGenerator ==
    \/ CreateEnhancedClassPlan
    \/ Respond

SpecGenerator == InitGenerator /\ [][NextGenerator]_vars

(***************************************************************************)
(* The uploader script: one run uploads the records once.                  *)
(***************************************************************************)
InitUploader ==
    /\ SEQUENCE_TEMPLATES = SequenceTemplatesAtImport
    /\ call = NoCall
    /\ returned = <<>>
    /\ upserts = <<>>
    /\ history = <<>>
    /\ frames = [invocation \in Invocations |-> NoFrame]
    /\ PoseflowAtImport
    /\ CurriculumAtImport

UploadData ==
    /\ call = NoCall
    /\ upserts = <<>>
    /\ \E records \in UploadRecords, batch_size \in BatchSizes,
          encoded \in BOOLEAN, fails_at \in FailingUpserts :
        LET done == upload_data(records, batch_size,
                                embeddings_for(records, encoded), fails_at)
        IN  /\ call' = [op |-> "upload_data", records |-> records,
                        batch_size |-> batch_size, fails_at |-> fails_at,
                        points |-> done.points]
                       @@ (IF "total_batches" \in DOMAIN done
                           THEN [total_batches |-> done.total_batches]
                           ELSE <<>>)
            /\ upserts' = done.upserts
            /\ returned' = done.value
    /\ UNCHANGED <<SEQUENCE_TEMPLATES, history, frames, poseflow, curriculum>>

NextUploader ==
    \/ UploadData
    \/ Respond

SpecUploader == InitUploader /\ [][NextUploader]_vars

(***************************************************************************)
(* The cleaner script: clean_yoga_dataset called on an input file.         *)
(***************************************************************************)
InitCleaner ==
    /\ SEQUENCE_TEMPLATES = SequenceTemplatesAtImport
    /\ call = NoCall
    /\ returned = <<>>
    /\ upserts = <<>>
    /\ history = <<>>
    /\ frames = [invocation \in Invocations |-> NoFrame]
    /\ PoseflowAtImport
    /\ CurriculumAtImport

CleanYogaDataset ==
    /\ call = NoCall
    /\ \E file \in InputFiles, write_ok \in BOOLEAN,
          output_file \in {None, Some("dataset/cleaned_yoga_poses_simple.json")} :
        /\ call' = [op |-> "clean_yoga_dataset", input_file |-> file,
                    output_file |-> output_file, write_ok |-> write_ok]
        /\ returned' = clean_yoga_dataset(file, output_file, write_ok)
    /\ UNCHANGED <<upserts, SEQUENCE_TEMPLATES, history, frames, poseflow, curriculum>>

NextCleaner ==
    \/ CleanYogaDataset
    \/ Respond

SpecCleaner == InitCleaner /\ [][NextCleaner]_vars

\* the same server, its create_yoga_sequence calls kept in history
NextRepeated ==
    \/ CreateYogaSequenceRepeated
    \/ SelectPosesForTime
    \/ GetSequenceTemplate
    \/ GetPoseDetails
    \/ Respond

SpecRepeated == Init /\ [][NextRepeated]_vars

(***************************************************************************)
(* What the properties below read of a call and of its result.             *)
(***************************************************************************)
IsCreate == call.op = "create_yoga_sequence"

IsSelect == call.op = "select_poses_for_time"

HasError(r) == "error" \in DOMAIN r

DeclaredStyles == <<"hatha", "vinyasa", "stress_relief">>

StyleKnown(style) == \E i \in 1..Len(DeclaredStyles) : DeclaredStyles[i] = style

DurationValid(d) == 5 <= d /\ d <= 90

\* the levels the template table defines under a declared style
LevelsOf(style) ==
    { SEQUENCE_TEMPLATES[i].value[j].key :
        <<i, j>> \in { t \in (1..Len(SEQUENCE_TEMPLATES)) \X (1..2) :
                        /\ SEQUENCE_TEMPLATES[t[1]].key = style
                        /\ t[2] <= Len(SEQUENCE_TEMPLATES[t[1]].value) } }

\* the level a request resolves to
ResolvedLevel(style, level) ==
    IF style = "stress_relief" THEN "all_levels" ELSE level

LevelAvailable(style, level) == ResolvedLevel(style, level) \in LevelsOf(style)

\* the request of the call passes the three validations
ValidRequest ==
    /\ IsCreate
    /\ DurationValid(call.duration_minutes)
    /\ StyleKnown(call.style)
    /\ LevelAvailable(call.style, call.level)

\* the sections of the template the request of the call resolves to
ResolvedTemplate ==
    LET i == CHOOSE i \in 1..Len(SEQUENCE_TEMPLATES) :
                 SEQUENCE_TEMPLATES[i].key = call.style
        lv == SEQUENCE_TEMPLATES[i].value
        j == CHOOSE j \in 1..Len(lv) :
                 lv[j].key = ResolvedLevel(call.style, call.level)
    IN  lv[j].value

Succeeded ==
    /\ ValidRequest
    /\ ~HasError(returned)

IsDurationError(r) ==
    /\ HasError(r)
    /\ r.error.text = "Duration must be between 5 and 90 minutes"

(***************************************************************************)
(* C1: for every integer duration_minutes, with a known style and an       *)
(* available level, create_yoga_sequence returns the duration error        *)
(* exactly when duration_minutes < 5 or duration_minutes > 90; 5 and 90    *)
(* succeed, 4 and 91 fail.                                                 *)
(***************************************************************************)
C1_DurationErrorExactlyOutsideRange ==
    (IsCreate /\ StyleKnown(call.style) /\ LevelAvailable(call.style, call.level)) =>
        /\ IsDurationError(returned) <=>
               (call.duration_minutes < 5 \/ call.duration_minutes > 90)
        /\ call.duration_minutes \in {5, 90} => ~HasError(returned)
        /\ call.duration_minutes \in {4, 91} => IsDurationError(returned)

C1_Witness ==
    /\ IsCreate
    /\ call.duration_minutes = 90
    /\ call.style = "hatha"
    /\ call.level = "beginner"
    /\ ~HasError(returned)
    /\ returned.class_info.duration = 90

(***************************************************************************)
(* The floor and the divisor of each section, per style.                   *)
(***************************************************************************)
SectionRule(style, section) ==
    CASE style = "hatha" /\ section = "warm_up"   -> [floor |-> 3, divisor |-> 6]
      [] style = "hatha" /\ section = "standing"  -> [floor |-> 5, divisor |-> 3]
      [] style = "hatha" /\ section = "seated"    -> [floor |-> 3, divisor |-> 4]
      [] style = "hatha" /\ section = "backbends" -> [floor |-> 2, divisor |-> 8]
      [] style = "hatha" /\ section = "cool_down" -> [floor |-> 5, divisor |-> 4]
      [] style = "vinyasa" /\ section = "warm_up"   -> [floor |-> 3, divisor |-> 5]
      [] style = "vinyasa" /\ section = "flow"      -> [floor |-> 8, divisor |-> 2]
      [] style = "vinyasa" /\ section = "peak"      -> [floor |-> 3, divisor |-> 4]
      [] style = "vinyasa" /\ section = "cool_down" -> [floor |-> 5, divisor |-> 4]
      [] style = "stress_relief" /\ section = "grounding"   -> [floor |-> 2, divisor |-> 6]
      [] style = "stress_relief" /\ section = "gentle"      -> [floor |-> 3, divisor |-> 4]
      [] style = "stress_relief" /\ section = "restorative" -> [floor |-> 5, divisor |-> 2]
      [] style = "stress_relief" /\ section = "relaxation"  -> [floor |-> 3, divisor |-> 4]
      [] OTHER -> [floor |-> 0, divisor |-> 0]

\* q is d // k: the integer with k * q <= d < k * (q + 1)
IsQuotient(q, d, k) == k > 0 /\ k * q <= d /\ d < k * (q + 1)

\* v is max(floor, d // divisor)
IsFlooredShare(v, d, rule) ==
    \E q \in 0..d :
        /\ IsQuotient(q, d, rule.divisor)
        /\ v >= rule.floor
        /\ v >= q
        /\ (v = rule.floor \/ v = q)

(***************************************************************************)
(* C2: for every valid request, each time_breakdown value equals           *)
(* max(floor, duration_minutes // divisor) with the per-style, per-section *)
(* constants (hatha: warm_up 3/6, standing 5/3, seated 3/4, backbends 2/8, *)
(* cool_down 5/4), so no section is allocated less than its floor; and     *)
(* (30, beginner, hatha) gives warm_up 5, standing 10, seated 7,           *)
(* backbends 3, cool_down 7.                                               *)
(***************************************************************************)
C2_TimeBreakdownIsFlooredShare ==
    ValidRequest =>
        /\ ~HasError(returned)
        /\ \A i \in 1..Len(returned.time_breakdown) :
              LET item == returned.time_breakdown[i]
                  rule == SectionRule(call.style, item.key)
              IN  /\ rule.divisor > 0
                  /\ IsFlooredShare(item.value, call.duration_minutes, rule)
                  /\ item.value >= rule.floor
        /\ (call.duration_minutes = 30 /\ call.level = "beginner"
                /\ call.style = "hatha") =>
              returned.time_breakdown =
                 << [key |-> "warm_up", value |-> 5],
                    [key |-> "standing", value |-> 10],
                    [key |-> "seated", value |-> 7],
                    [key |-> "backbends", value |-> 3],
                    [key |-> "cool_down", value |-> 7] >>

C2_Witness ==
    /\ ValidRequest
    /\ call.duration_minutes = 30
    /\ call.level = "beginner"
    /\ call.style = "hatha"
    /\ ~HasError(returned)
    /\ returned.time_breakdown[4] = [key |-> "backbends", value |-> 3]

(***************************************************************************)
(* C3: for every section with allocated time t > 0 and a candidate list of *)
(* length n, the poses returned are exactly the first                      *)
(* max(1, min(floor(t / 1.5), n)) candidates in template order: between 1  *)
(* and n poses, always a prefix, never reordered or skipped.               *)
(***************************************************************************)
\* k is floor(t / 1.5): 1.5 * k <= t < 1.5 * (k + 1)
IsFloorOfTimeBy1_5(k, t) == 3 * k <= 2 * t /\ 2 * t < 3 * (k + 1)

IsTimedPrefix(selected, candidates, t) ==
    LET n == Len(candidates)
    IN  /\ 1 <= Len(selected)
        /\ Len(selected) <= n
        /\ \A m \in 1..Len(selected) : selected[m] = candidates[m]
        /\ \E k \in 0..t :
              /\ IsFloorOfTimeBy1_5(k, t)
              /\ Len(selected) =
                    (IF k < 1 THEN 1 ELSE IF k > n THEN n ELSE k)

C3_SelectedPosesAreTimedPrefix ==
    /\ (IsSelect /\ call.time_minutes > 0) =>
          IsTimedPrefix(returned, call.poses, call.time_minutes)
    /\ Succeeded =>
          \A i \in 1..Len(returned.sequence) :
              /\ i <= Len(ResolvedTemplate)
              /\ returned.sequence[i].duration_minutes > 0
              /\ IsTimedPrefix(returned.sequence[i].poses,
                               ResolvedTemplate[i].value,
                               returned.sequence[i].duration_minutes)

C3_Witness ==
    /\ IsSelect
    /\ call.time_minutes = 4
    /\ Len(call.poses) = 4
    /\ Len(returned) = 2
    /\ returned[2] = call.poses[2]

(***************************************************************************)
(* C4: for every valid (duration_minutes, style, level), the keys of       *)
(* time_breakdown are exactly the section keys of the resolved template    *)
(* level, in the same order.                                               *)
(***************************************************************************)
C4_TimeBreakdownKeysAreTemplateSections ==
    ValidRequest =>
        /\ ~HasError(returned)
        /\ Len(returned.time_breakdown) = Len(ResolvedTemplate)
        /\ \A i \in 1..Len(ResolvedTemplate) :
              returned.time_breakdown[i].key = ResolvedTemplate[i].key

C4_Witness ==
    /\ ValidRequest
    /\ call.style = "vinyasa"
    /\ call.level = "intermediate"
    /\ ~HasError(returned)
    /\ Len(returned.time_breakdown) = 4
    /\ returned.time_breakdown[2].key = "flow"

(***************************************************************************)
(* C5: with style "stress_relief" and a valid duration,                    *)
(* create_yoga_sequence succeeds for every value of the level argument     *)
(* (including "advanced" or an unknown string) and reports                 *)
(* class_info.level = "all_levels".                                        *)
(***************************************************************************)
C5_StressReliefIgnoresLevel ==
    (IsCreate /\ call.style = "stress_relief"
        /\ DurationValid(call.duration_minutes)) =>
        /\ ~HasError(returned)
        /\ DOMAIN returned = {"class_info", "sequence", "time_breakdown", "total_poses"}
        /\ returned.class_info.level = "all_levels"
        /\ returned.class_info.style = "stress_relief"

C5_Witness ==
    /\ IsCreate
    /\ call.style = "stress_relief"
    /\ call.level = "advanced"
    /\ DurationValid(call.duration_minutes)
    /\ ~HasError(returned)
    /\ returned.class_info.level = "all_levels"
    /\ Len(returned.sequence) = 4

(***************************************************************************)
(* C6: when a request with a valid duration names an unknown style, or a   *)
(* level that does not exist under a known style other than stress_relief, *)
(* the error string enumerates exactly the valid set: the declared styles  *)
(* hatha, vinyasa, stress_relief for a style error, and the levels defined *)
(* for that style for a level error.                                       *)
(***************************************************************************)
Listed(list) == { list[i] : i \in 1..Len(list) }

\* the styles, among those tried, with which some request succeeds
AcceptedStyles ==
    { st \in Styles \cup Listed(DeclaredStyles) :
        \E lv \in Levels :
            ~HasError(create_yoga_sequence(call.duration_minutes, lv, st, call.focus)) }

\* the levels, among those tried, with which a request of the call's style succeeds
AcceptedLevels ==
    { lv \in Levels :
        ~HasError(create_yoga_sequence(call.duration_minutes, lv, call.style, call.focus)) }

C6_ErrorEnumeratesValidSet ==
    (IsCreate /\ DurationValid(call.duration_minutes)) =>
        /\ ~StyleKnown(call.style) =>
              /\ HasError(returned)
              /\ "keys" \in DOMAIN returned.error
              /\ returned.error.keys = DeclaredStyles
              /\ Listed(returned.error.keys) = AcceptedStyles
        /\ (StyleKnown(call.style) /\ call.style # "stress_relief"
                /\ call.level \notin LevelsOf(call.style)) =>
              /\ HasError(returned)
              /\ "available_levels" \in DOMAIN returned.error
              /\ Listed(returned.error.available_levels) = LevelsOf(call.style)
              /\ Listed(returned.error.available_levels) = AcceptedLevels
              /\ Len(returned.error.available_levels) = Cardinality(LevelsOf(call.style))
              /\ returned.error.level = call.level
              /\ returned.error.style = call.style

C6_Witness ==
    /\ IsCreate
    /\ call.duration_minutes = 30
    /\ call.style = "hatha"
    /\ call.level = "advanced"
    /\ HasError(returned)
    /\ "available_levels" \in DOMAIN returned.error
    /\ returned.error.available_levels = <<"beginner", "intermediate">>

(***************************************************************************)
(* C7: the response of create_yoga_sequence contains the key error if and  *)
(* only if one of the three input validations fails (duration outside      *)
(* [5,90], unknown style, unavailable level); an error response carries no *)
(* class_info, sequence, time_breakdown or total_poses, and a success      *)
(* response carries all four and no error.                                 *)
(***************************************************************************)
C7_ErrorIffValidationFails ==
    IsCreate =>
        /\ HasError(returned) <=>
              \/ ~DurationValid(call.duration_minutes)
              \/ ~StyleKnown(call.style)
              \/ ~LevelAvailable(call.style, call.level)
        /\ HasError(returned) => DOMAIN returned = {"error"}
        /\ ~HasError(returned) =>
              DOMAIN returned = {"class_info", "sequence", "time_breakdown", "total_poses"}

C7_Witness ==
    /\ IsCreate
    /\ DurationValid(call.duration_minutes)
    /\ call.style = "vinyasa"
    /\ call.level = "advanced"
    /\ DOMAIN returned = {"error"}

(***************************************************************************)
(* C8: for every valid request, sequence has exactly one entry per section *)
(* of the resolved template, in template order, and each entry's           *)
(* duration_minutes equals time_breakdown of that section; no section of   *)
(* the template is skipped.                                                *)
(***************************************************************************)
\* the human-readable name an entry carries for a section key
SectionLabel(section) ==
    CASE section = "warm_up"     -> <<"W","a","r","m"," ","U","p">>
      [] section = "standing"    -> <<"S","t","a","n","d","i","n","g">>
      [] section = "seated"      -> <<"S","e","a","t","e","d">>
      [] section = "backbends"   -> <<"B","a","c","k","b","e","n","d","s">>
      [] section = "cool_down"   -> <<"C","o","o","l"," ","D","o","w","n">>
      [] section = "flow"        -> <<"F","l","o","w">>
      [] section = "peak"        -> <<"P","e","a","k">>
      [] section = "grounding"   -> <<"G","r","o","u","n","d","i","n","g">>
      [] section = "gentle"      -> <<"G","e","n","t","l","e">>
      [] section = "restorative" -> <<"R","e","s","t","o","r","a","t","i","v","e">>
      [] section = "relaxation"  -> <<"R","e","l","a","x","a","t","i","o","n">>
      [] OTHER -> <<>>

\* the minutes time_breakdown gives a section: one item has the key, with v
BreakdownGives(time_breakdown, section, v) ==
    /\ Cardinality({ i \in 1..Len(time_breakdown) : time_breakdown[i].key = section }) = 1
    /\ \E i \in 1..Len(time_breakdown) :
          time_breakdown[i].key = section /\ time_breakdown[i].value = v

C8_OneEntryPerTemplateSection ==
    ValidRequest =>
        /\ ~HasError(returned)
        /\ Len(returned.sequence) = Len(ResolvedTemplate)
        /\ \A i \in 1..Len(ResolvedTemplate) :
              /\ i <= Len(returned.sequence)
              /\ returned.sequence[i].section = SectionLabel(ResolvedTemplate[i].key)
              /\ BreakdownGives(returned.time_breakdown, ResolvedTemplate[i].key,
                                returned.sequence[i].duration_minutes)

C8_Witness ==
    /\ ValidRequest
    /\ call.duration_minutes = 5
    /\ call.style = "hatha"
    /\ call.level = "intermediate"
    /\ ~HasError(returned)
    /\ Len(returned.sequence) = 5
    /\ returned.sequence[4].section = <<"B","a","c","k","b","e","n","d","s">>
    /\ returned.sequence[4].duration_minutes = 2
    /\ returned.sequence[5].section = <<"C","o","o","l"," ","D","o","w","n">>

(***************************************************************************)
(* C9: for every valid request, total_poses equals the sum over the        *)
(* entries of sequence of the number of poses in that entry.               *)
(***************************************************************************)
RECURSIVE PosesIn(_)
PosesIn(entries) ==
    IF entries = <<>> THEN 0
    ELSE Len(Head(entries).poses) + PosesIn(Tail(entries))

C9_TotalPosesIsSumOfEntries ==
    ValidRequest =>
        /\ ~HasError(returned)
        /\ returned.total_poses = PosesIn(returned.sequence)

C9_Witness ==
    /\ ValidRequest
    /\ call.duration_minutes = 12
    /\ call.style = "vinyasa"
    /\ call.level = "beginner"
    /\ ~HasError(returned)
    /\ returned.total_poses = 10
    /\ Len(returned.sequence[1].poses) = 2
    /\ Len(returned.sequence[4].poses) = 3

(***************************************************************************)
(* C10: the sum of the time_breakdown values exceeds duration_minutes only *)
(* for small durations where a floor applies: for every style and every    *)
(* valid duration at which no section's floor dominates                    *)
(* (duration_minutes // divisor >= floor for every section), the sum of    *)
(* allocated minutes is at most duration_minutes.                          *)
(***************************************************************************)
RECURSIVE MinutesIn(_)
MinutesIn(time_breakdown) ==
    IF time_breakdown = <<>> THEN 0
    ELSE Head(time_breakdown).value + MinutesIn(Tail(time_breakdown))

\* duration_minutes // divisor >= floor for every section of the breakdown
NoFloorDominates(style, d, time_breakdown) ==
    \A i \in 1..Len(time_breakdown) :
        LET rule == SectionRule(style, time_breakdown[i].key)
        IN  rule.divisor > 0 /\ d \div rule.divisor >= rule.floor

C10_SumWithinDurationUnlessFloored ==
    (Succeeded /\ NoFloorDominates(call.style, call.duration_minutes,
                                   returned.time_breakdown)) =>
        MinutesIn(returned.time_breakdown) <= call.duration_minutes

(***************************************************************************)
(* C11: create_yoga_sequence supports the student levels beginner,         *)
(* intermediate and advanced: with a valid duration and style hatha or     *)
(* vinyasa, each of these three levels produces a sequence rather than an  *)
(* error.                                                                  *)
(***************************************************************************)
C11_DocumentedLevelsProduceSequence ==
    (IsCreate /\ DurationValid(call.duration_minutes)
        /\ call.style \in {"hatha", "vinyasa"}
        /\ call.level \in {"beginner", "intermediate", "advanced"}) =>
        /\ ~HasError(returned)
        /\ "sequence" \in DOMAIN returned

(***************************************************************************)
(* C12: two create_yoga_sequence calls that differ only in focus return    *)
(* results that are identical except for class_info.focus: focus never     *)
(* changes time_breakdown, the selected poses, their order or total_poses, *)
(* and no focus value is rejected.                                         *)
(***************************************************************************)
\* what the call of this state returns when made with another focus
WithFocus(focus) ==
    create_yoga_sequence(call.duration_minutes, call.level, call.style, focus)

C12_FocusOnlyEchoed ==
    IsCreate =>
        \A focus \in Focuses \cup {"strength", ""} :
            LET other == WithFocus(focus)
            IN  /\ HasError(other) <=> HasError(returned)
                /\ HasError(returned) => other.error = returned.error
                /\ ~HasError(returned) =>
                      /\ other.time_breakdown = returned.time_breakdown
                      /\ other.sequence = returned.sequence
                      /\ other.total_poses = returned.total_poses
                      /\ other.class_info.duration = returned.class_info.duration
                      /\ other.class_info.level = returned.class_info.level
                      /\ other.class_info.style = returned.class_info.style
                      /\ other.class_info.focus = focus
                      /\ returned.class_info.focus = call.focus

C12_Witness ==
    /\ ValidRequest
    /\ call.focus = "hip_opening"
    /\ call.duration_minutes = 45
    /\ ~HasError(returned)
    /\ returned.class_info.focus = "hip_opening"
    /\ WithFocus("balanced").class_info.focus = "balanced"
    /\ WithFocus("balanced").sequence = returned.sequence

(***************************************************************************)
(* C13: create_yoga_sequence is deterministic: calling it twice with       *)
(* identical (duration_minutes, level, style, focus), with any other calls *)
(* in between, yields identical output.                                    *)
(***************************************************************************)
C13_SameRequestSameResult ==
    \A i, j \in 1..Len(history) :
        history[i].request = history[j].request =>
            history[i].result = history[j].result

\* a request made, another request with a shorter class served, then the first
\* request made again
C13_Witness ==
    /\ Len(history) = 3
    /\ history[1].request = history[3].request
    /\ history[2].request.style = history[1].request.style
    /\ history[2].request.duration_minutes < history[1].request.duration_minutes
    /\ ~HasError(history[3].result)
    /\ history[3].result.total_poses > history[2].result.total_poses
    /\ call = history[3].request

(***************************************************************************)
(* C14: no sequence of create_yoga_sequence, get_sequence_template and     *)
(* get_pose_details calls changes SEQUENCE_TEMPLATES: after any such       *)
(* sequence the table equals its value at import.                          *)
(***************************************************************************)
C14_TemplatesStayAsImported == SEQUENCE_TEMPLATES = SequenceTemplatesAtImport

\* two classes have been built and a pose is being looked up
C14_Witness ==
    /\ Len(history) >= 2
    /\ ~HasError(history[1].result)
    /\ ~HasError(history[2].result)
    /\ call.op = "get_pose_details"
    /\ ~contains(returned.json, "error")
    /\ SEQUENCE_TEMPLATES = SequenceTemplatesAtImport

(***************************************************************************)
(* C20: get_sequence_template(style, level) returns the template exactly   *)
(* when the pair (style, level) exists in the table, and                   *)
(* get_pose_details(pose_name) returns details exactly when a pose with    *)
(* that name occurs in some template; otherwise each returns a structured  *)
(* {"error": ...} payload, and neither ever raises.                        *)
(***************************************************************************)
\* the places <<style, level, section, pose>> of the table, by index
Places ==
    { t \in (1..3) \X (1..2) \X (1..5) \X (1..4) :
        /\ t[1] <= Len(SEQUENCE_TEMPLATES)
        /\ t[2] <= Len(SEQUENCE_TEMPLATES[t[1]].value)
        /\ t[3] <= Len(SEQUENCE_TEMPLATES[t[1]].value[t[2]].value)
        /\ t[4] <= Len(SEQUENCE_TEMPLATES[t[1]].value[t[2]].value[t[3]].value) }

PoseAt(t) == SEQUENCE_TEMPLATES[t[1]].value[t[2]].value[t[3]].value[t[4]]

\* the style, level and section of a place, as found_in_styles spells them
PlaceEntry(t) ==
    << Item("style", SEQUENCE_TEMPLATES[t[1]].key),
       Item("level", SEQUENCE_TEMPLATES[t[1]].value[t[2]].key),
       Item("section", SEQUENCE_TEMPLATES[t[1]].value[t[2]].value[t[3]].key) >>

PlacesNamed(pose_name) == { t \in Places : PoseAt(t).name = pose_name }

IsErrorPayload(r) ==
    /\ DOMAIN r = {"json"}
    /\ keys(r.json) = <<"error">>

IsTemplateOf(r, style, level) ==
    /\ DOMAIN r = {"json"}
    /\ \E t \in Places :
          /\ SEQUENCE_TEMPLATES[t[1]].key = style
          /\ SEQUENCE_TEMPLATES[t[1]].value[t[2]].key = level
          /\ r.json = SEQUENCE_TEMPLATES[t[1]].value[t[2]].value

IsDetailsOf(r, pose_name) ==
    /\ DOMAIN r = {"json"}
    /\ ~contains(r.json, "error")
    /\ get(r.json, "pose_name") = pose_name
    /\ \E t \in PlacesNamed(pose_name) :
          /\ get(r.json, "sanskrit_name") = PoseAt(t).sanskrit_name
          /\ get(r.json, "expertise_level") = PoseAt(t).expertise_level
    /\ Listed(get(r.json, "found_in_styles")) =
          { PlaceEntry(t) : t \in PlacesNamed(pose_name) }

C20_ResourcesFoundOrErrorPayload ==
    /\ call.op = "get_sequence_template" =>
          IF \E t \in Places :
                /\ SEQUENCE_TEMPLATES[t[1]].key = call.style
                /\ SEQUENCE_TEMPLATES[t[1]].value[t[2]].key = call.level
          THEN IsTemplateOf(returned, call.style, call.level)
          ELSE IsErrorPayload(returned)
    /\ call.op = "get_pose_details" =>
          IF PlacesNamed(call.pose_name) # {}
          THEN IsDetailsOf(returned, call.pose_name)
          ELSE IsErrorPayload(returned)

\* a pose that stands in several templates is looked up
C20_Witness ==
    /\ call.op = "get_pose_details"
    /\ call.pose_name = "Child's Pose"
    /\ Cardinality(PlacesNamed(call.pose_name)) >= 3
    /\ IsDetailsOf(returned, "Child's Pose")
    /\ Len(get(returned.json, "found_in_styles")) >= 3

(***************************************************************************)
(* C15: in every interleaving of concurrent create_yoga_sequence           *)
(* invocations, each invocation returns the same result as if it ran       *)
(* alone: one call's time allocation or result is never visible to or      *)
(* altered by another call.                                                *)
(***************************************************************************)
\* what the request of a frame returns when it is served alone
ServedAlone(f) ==
    create_yoga_sequence(f.duration_minutes, f.level, f.style, f.focus)

C15_ConcurrentCallsReturnAsAlone ==
    \A invocation \in Invocations :
        LET f == frames[invocation]
        IN  /\ f.pc = "returned" => f.result = ServedAlone(f)
            /\ f.pc = "loop" =>
                  /\ f.time_allocation =
                        calculate_time_allocation(f.duration_minutes, f.style)
                  /\ f.sequence.time_breakdown = f.time_allocation

\* one invocation has returned a class while the other, asked for a class of
\* another style and length, is in the middle of its loop
C15_Witness ==
    /\ frames["first"].pc = "returned"
    /\ "sequence" \in DOMAIN frames["first"].result
    /\ frames["second"].pc = "loop"
    /\ frames["second"].i = 3
    /\ frames["second"].style # frames["first"].style
    /\ frames["second"].duration_minutes # frames["first"].duration_minutes
    /\ frames["first"].result = ServedAlone(frames["first"])

(***************************************************************************)
(* C17: whenever generate_pose_audio_with_piper does not deliver the audio *)
(* in the requested form (TTS failure, missing user_save_path, or a failed *)
(* write to the user's save path), the response carries a top-level error  *)
(* field.                                                                  *)
(***************************************************************************)
IsAudio == call.op = "generate_pose_audio_with_piper"

\* Piper is installed, the voice model is there, and loading and synthesis work
Synthesizes(piper) ==
    piper.importable /\ piper.model_exists /\ piper.load_ok /\ piper.synthesize_ok

MissingUserSavePath ==
    call.output_preference = "save_to_user_path" /\ call.user_save_path = ""

FailedUserWrite ==
    /\ call.output_preference = "save_to_user_path"
    /\ call.user_save_path # ""
    /\ ~call.files.user_write_ok

C17_UndeliveredAudioHasTopLevelError ==
    (IsAudio /\ (\/ ~Synthesizes(call.piper)
                 \/ MissingUserSavePath
                 \/ FailedUserWrite)) =>
        "error" \in DOMAIN returned

(***************************************************************************)
(* C18: the TTS path reports a missing voice model or a missing Piper      *)
(* installation as a failure that can be told from a provider error raised *)
(* during synthesis, both in what call_piper_tts_api returns and in the    *)
(* response of generate_pose_audio_with_piper.                             *)
(***************************************************************************)
NotConfigured(piper) == ~piper.importable \/ ~piper.model_exists

ProviderError(piper) ==
    /\ piper.importable /\ piper.model_exists
    /\ ~piper.load_ok \/ ~piper.synthesize_ok

\* how a response of generate_pose_audio_with_piper describes a failure
FailureReport(r) ==
    [error |-> r.error,
     details |-> IF "details" \in DOMAIN r THEN r.details ELSE [text |-> ""]]

C18_NotConfiguredToldFromProviderError ==
    /\ (call.op = "call_piper_tts_api" /\ NotConfigured(call.piper)) =>
          /\ ~returned.success
          /\ \A other \in PiperBehaviours, voice \in Voices :
                ProviderError(other) =>
                    LET r == call_piper_tts_api(call.text, voice, other)
                    IN  ~r.success /\ r.error # returned.error
    /\ (IsAudio /\ NotConfigured(call.piper)) =>
          /\ "error" \in DOMAIN returned
          /\ \A other \in PiperBehaviours, voice \in Voices :
                ProviderError(other) =>
                    LET r == generate_pose_audio_with_piper(
                                call.asana_name, voice, call.include_breathing_cues,
                                call.output_preference, call.user_save_path,
                                other, call.files)
                    IN  /\ "error" \in DOMAIN r
                        /\ FailureReport(r) # FailureReport(returned)

\* the voice model is not in the models folder
C18_Witness ==
    /\ IsAudio
    /\ call.piper.importable
    /\ ~call.piper.model_exists
    /\ call.piper.load_ok /\ call.piper.synthesize_ok
    /\ "details" \in DOMAIN returned
    /\ returned.details.text = "Voice model {voice}.onnx not found in ./models/ folder"
    /\ returned.details.voice = call.voice

(***************************************************************************)
(* C16: no tool lets a collaborator failure escape as an exception: when   *)
(* the email sender, the Slack sender, the pose backend or the TTS engine  *)
(* fails during notify_teacher, send_to_teacher, record_pose or            *)
(* generate_pose_audio_with_piper, the tool still returns a structured     *)
(* payload with an error field.                                            *)
(***************************************************************************)
\* the SMTP server or the Slack webhook is used by the call and fails
SenderFails ==
    /\ notifications_imported
    /\ \/ /\ truthy(call.teacher_email)
          /\ call.mail.smtp_configured /\ ~call.mail.smtp_ok
       \/ /\ truthy(call.slack_webhook)
          /\ ~call.mail.slack_ok

\* the pose backend is asked by the call and fails
BackendFails ==
    /\ Len(call.landmarks) > 0 \/ truthy(call.image_url) \/ truthy(call.image_b64)
    /\ call.backend.raises \/ call.backend.status_code # 200

CollaboratorFails ==
    \/ call.op = "notify_teacher" /\ call.confirm /\ SenderFails
    \/ call.op = "send_to_teacher" /\ SenderFails
    \/ call.op = "record_pose" /\ BackendFails
    \/ call.op = "generate_pose_audio_with_piper" /\ ~Synthesizes(call.piper)

C16_CollaboratorFailureReturnsErrorPayload ==
    CollaboratorFails =>
        /\ ~("raised" \in DOMAIN returned)
        /\ "error" \in DOMAIN returned

(***************************************************************************)
(* C19: when no vector-search backend is configured (no Qdrant client or   *)
(* no embedding model), search_yoga_poses returns an empty list and raises *)
(* no exception, for every query, limit and expertise filter.              *)
(***************************************************************************)
NoSearchBackend == qdrant_client = None \/ embedding_model = None

IsSearch == call.op = "search_yoga_poses"

C19_NoBackendReturnsEmptyList ==
    (IsSearch /\ NoSearchBackend) => returned = <<>>

\* the names of the demo poses, in their order
DemoPoseNames ==
    <<"Mountain Pose", "Tree Pose", "Warrior I Pose", "Warrior II Pose",
      "Chair Pose", "Easy Pose", "Child's Pose", "Corpse Pose">>

\* the level the demo poses carry for an expertise filter
DemoLevel(expertise_filter) ==
    IF expertise_filter = Some("Intermediate") THEN chars("Intermediate")
    ELSE IF expertise_filter = Some("ADVANCED") THEN chars("Advanced")
    ELSE chars("Beginner")

\* C19, as the code has it: with no vector-search backend configured,
\* search_yoga_poses returns the eight demo poses, each carrying the
\* title-cased expertise filter (Beginner when none is given) and no score,
\* whatever the query and the limit, and raises no exception.
C19_NoBackendReturnsDemoPoses ==
    (IsSearch /\ NoSearchBackend) =>
        /\ [n \in 1..Len(returned) |-> returned[n].pose.name] = DemoPoseNames
        /\ \A n \in 1..Len(returned) :
              /\ DOMAIN returned[n] = {"pose"}
              /\ returned[n].pose.expertise_level = DemoLevel(call.expertise_filter)

\* demo mode after initialisation without Qdrant credentials, fewer poses asked
\* for than there are demo poses
C19_Witness ==
    /\ IsSearch
    /\ initialized
    /\ qdrant_client = None
    /\ call.limit = 3
    /\ call.expertise_filter = Some("ADVANCED")
    /\ Len(returned) = 8
    /\ returned[1].pose.expertise_level = chars("Advanced")

(***************************************************************************)
(* C21: in any sequence of notify_teacher calls, a message reaches the     *)
(* SMTP server or the Slack webhook only in a call with confirm = true and *)
(* at least one destination; a call with confirm = false sends nothing and *)
(* returns action "preview", and a call with confirm = true and no         *)
(* destination sends nothing and returns an error.                         *)
(***************************************************************************)
\* the call being answered names an email address or a Slack webhook
HasDestination == truthy(call.teacher_email) \/ truthy(call.slack_webhook)

C21_step ==
    call'.op = "notify_teacher" =>
        /\ outbox' # outbox => call'.confirm /\ HasDestination'
        /\ ~call'.confirm =>
            /\ outbox' = outbox
            /\ "action" \in DOMAIN returned'
            /\ returned'.action = "preview"
        /\ call'.confirm /\ ~HasDestination' =>
            /\ outbox' = outbox
            /\ "error" \in DOMAIN returned'

C21_SendsOnlyWhenConfirmedWithDestination == [][C21_step]_vars

\* a confirmed call whose email and Slack message were both taken
C21_Witness ==
    /\ call.op = "notify_teacher"
    /\ call.confirm
    /\ HasDestination
    /\ "sent" \in DOMAIN returned
    /\ Len(outbox) = 2
    /\ outbox[1].channel = "email"
    /\ outbox[2].channel = "slack"

(***************************************************************************)
(* C22: after any sequence of tool calls the stored threshold lies in      *)
(* [0.0, 1.0]: it starts at 0.8, and set_threshold(v) stores and returns v *)
(* clamped to that range (0.0 for v < 0, 1.0 for v > 1, v otherwise).      *)
(* Thresholds are counted in ten-thousandths.                              *)
(***************************************************************************)
C22_Clamped(v) ==
    IF v < 0 THEN 0 ELSE IF v > 10000 THEN 10000 ELSE v

C22_StoredInRange ==
    /\ POSEFLOW_STATE.threshold >= 0
    /\ POSEFLOW_STATE.threshold <= 10000
    /\ call.op = "set_threshold" =>
        /\ POSEFLOW_STATE.threshold = C22_Clamped(call.value)
        /\ returned = [threshold |-> C22_Clamped(call.value)]

C22_ThresholdStartsAt08AndStaysClamped ==
    /\ POSEFLOW_STATE.threshold = 8000
    /\ []C22_StoredInRange

\* set_threshold(-0.5) after the threshold had been anything: 0.0 is stored
C22_Witness ==
    /\ call.op = "set_threshold"
    /\ call.value < 0
    /\ POSEFLOW_STATE.threshold = 0
    /\ returned.threshold = 0

(***************************************************************************)
(* C23: after any sequence of set_threshold and celebrate_if_correct       *)
(* calls, celebrate_if_correct returns the celebration message if and only *)
(* if confidence >= the effective threshold: the call's explicit threshold *)
(* when given, otherwise the value stored by the most recent set_threshold *)
(* (0.8 if there was none).  An explicit threshold serves that call only   *)
(* and is never stored: only set_threshold changes the stored value.       *)
(***************************************************************************)
C23_step ==
    /\ call'.op # "set_threshold" => POSEFLOW_STATE' = POSEFLOW_STATE
    /\ call'.op = "set_threshold" =>
            POSEFLOW_STATE'.threshold = C22_Clamped(call'.value)
    /\ call'.op = "celebrate_if_correct" =>
        LET effective ==
                IF call'.threshold # None THEN call'.threshold[1]
                ELSE POSEFLOW_STATE.threshold
        IN  /\ returned' \in {"Bravo! Pose achieved.", "Keep adjusting-you're close!"}
            /\ returned' = "Bravo! Pose achieved."
                    <=> call'.confidence >= effective

C23_CelebratesIffConfidenceReachesThreshold ==
    /\ POSEFLOW_STATE.threshold = 8000
    /\ [][C23_step]_vars

\* a confidence below 0.8 celebrated without explicit threshold, after a
\* set_threshold lowered the stored one
C23_Witness ==
    /\ call.op = "celebrate_if_correct"
    /\ call.threshold = None
    /\ call.confidence < 8000
    /\ call.confidence >= POSEFLOW_STATE.threshold
    /\ returned = "Bravo! Pose achieved."

(***************************************************************************)
(* C24: round trip: for every successful generate_pose_audio_with_piper    *)
(* response obtained with output_preference "base64_data",                 *)
(* create_audio_stream_from_response returns a stream, positioned at 0,    *)
(* whose bytes are exactly the audio bytes produced by the TTS call; it    *)
(* does not raise "No audio content found".                                *)
(***************************************************************************)
\* the helper was given a successful response that carries base64 data
C24_SuccessfulBase64Response ==
    /\ call.op = "create_audio_stream_from_response"
    /\ call.output_preference = "base64_data"
    /\ ~("error" \in DOMAIN call.response)
    /\ "audio_data" \in DOMAIN call.response

C24_StreamHoldsSynthesizedAudio ==
    /\ C24_SuccessfulBase64Response =>
            returned = [value |-> [getvalue |-> call.piper.audio_data, tell |-> 0]]
    /\ call.op = "stream_pose_audio_example" /\ Synthesizes(call.piper) =>
            /\ "audio_stream" \in DOMAIN returned
            /\ returned.audio_stream = [getvalue |-> call.piper.audio_data, tell |-> 0]

(***************************************************************************)
(* C25: in every plan returned by create_enhanced_class_plan,              *)
(* metadata.enhanced_with_mistral is true only if the Mistral enhancements *)
(* were integrated (the plan has mistral_enhancements); a base plan        *)
(* returned after an enhancement failure (metadata carries                 *)
(* mistral_enhancement_error) is not marked as enhanced.                   *)
(***************************************************************************)
\* create_enhanced_class_plan returned a plan and raised nothing
ReturnedPlan ==
    /\ call.op = "create_enhanced_class_plan"
    /\ "metadata" \in DOMAIN returned

C25_EnhancedFlagOnlyWhenIntegrated ==
    ReturnedPlan =>
        /\ returned.metadata.enhanced_with_mistral
                => "mistral_enhancements" \in DOMAIN returned
        /\ "mistral_enhancement_error" \in DOMAIN returned.metadata
                => ~returned.metadata.enhanced_with_mistral

(***************************************************************************)
(* C26: in a class plan built by create_enhanced_class_plan from any       *)
(* poses_data, no pose is assigned more than once: it appears in at most   *)
(* one section and at most once within that section, so                    *)
(* metadata.total_poses counts distinct poses.                             *)
(***************************************************************************)
RECURSIVE AssignedPoses(_)
\* the poses of all sections of a plan, section after section
AssignedPoses(sections) ==
    IF sections = <<>> THEN <<>>
    ELSE Head(sections).value.poses \o AssignedPoses(Tail(sections))

C26_NoPoseAssignedTwice ==
    ReturnedPlan =>
        LET assigned == AssignedPoses(returned.sections)
        IN  /\ \A i, j \in 1..Len(assigned) : i # j => assigned[i] # assigned[j]
            /\ returned.metadata.total_poses =
                    Cardinality({assigned[i] : i \in 1..Len(assigned)})

\* C27: an initialised curriculum server has its generator; it stays
\* initialised, and from then on no call (initialize_components,
\* create_yoga_curriculum, search_poses) replaces qdrant_client,
\* embedding_model or enhanced_generator, and initialize_components
\* returns True.
C27_step ==
    initialized =>
        /\ initialized'
        /\ qdrant_client' = qdrant_client
        /\ embedding_model' = embedding_model
        /\ enhanced_generator' = enhanced_generator
        /\ call'.op = "initialize_components" => returned' = TRUE

C27_InitializedOnceAndKept ==
    /\ [](initialized => enhanced_generator # None)
    /\ [][C27_step]_vars

\* initialize_components has returned True on a server already initialised:
\* constructors that would fail, or would make other objects, were not run
C27_Witness ==
    /\ call.op = "initialize_components"
    /\ returned = TRUE
    /\ initialized
    /\ enhanced_generator # None
    /\ \/ /\ MISTRAL_AVAILABLE
          /\ config.mistral_api_key # ""
          /\ ~call.made.generator_ok
       \/ enhanced_generator[1].id # call.made.id

\* the points of the batches, one after the other
RECURSIVE Concatenated(_)
Concatenated(batches) ==
    IF batches = <<>> THEN <<>>
    ELSE Head(batches) \o Concatenated(Tail(batches))

\* an upload_data call during which no upsert raised
UploadWithoutFailure ==
    /\ call.op = "upload_data"
    /\ \/ call.fails_at = 0
       \/ call.fails_at > Len(upserts) /\ returned = TRUE

\* C28: when no upsert fails, the batches taken by the collection are the
\* prepared points, each once and in order; every batch has at most
\* batch_size points and only the last may have fewer; the number of
\* upserts is ceil(n / batch_size), which is the announced total_batches.
C28_EveryPointOnceInFullBatches ==
    UploadWithoutFailure =>
        LET n == Len(call.points)
            b == call.batch_size
        IN  /\ Concatenated(upserts) = call.points
            /\ \A k \in 1..Len(upserts) :
                /\ Len(upserts[k]) >= 1
                /\ Len(upserts[k]) <= b
                /\ k < Len(upserts) => Len(upserts[k]) = b
            /\ Len(upserts) * b >= n
            /\ (Len(upserts) - 1) * b < n \/ n = 0
            /\ n = 0 => upserts = <<>>
            /\ "total_batches" \in DOMAIN call
                   => call.total_batches = Len(upserts)

\* five points went up in batches of two: two full batches and a last one
\* of one point
C28_Witness ==
    /\ call.op = "upload_data"
    /\ returned = TRUE
    /\ call.batch_size = 2
    /\ Len(call.points) = 5
    /\ Len(upserts) = 3
    /\ Len(upserts[3]) = 1

\* C29: clean_yoga_dataset always ends by returning True or False, never
\* by raising, whatever the input file holds, a dataset with no rows
\* included.
C29_ReturnsTrueOrFalse ==
    call.op = "clean_yoga_dataset" =>
        /\ "raised" \notin DOMAIN returned
        /\ returned.value \in BOOLEAN

====
